---- MODULE Spec2Model ----
(***************************************************************************)
(* Model of the AEC payload generator (src/aec_payload_generator.py):      *)
(* proportional allocation of assets over the type catalogue, id           *)
(* allocation, relationship sampling over the id pools, and the            *)
(* compound-key transform of generate_payload.                             *)
(*                                                                         *)
(* Strings built by f-strings are modelled as tuples of their parts        *)
(* (prefix, zero-padded digit sequence), documents as functions from       *)
(* field names to values.  Leaf values that are sampled from the random    *)
(* source and read by no operation (levels, families, geometry) are left   *)
(* out of the asset documents.                                             *)
(***************************************************************************)
EXTENDS Integers, Sequences, FiniteSets, TLC

\* ---------------------------------------------------------------- bounds
MaxTotalAssets == 10
MaxTotalRelationships == 2
MaxCalls == 2
MaxTotalABC == 800

\* ------------------------------------------------------------- catalogue
\* dict insertion order of ASSET_TYPES
TypeKeys == <<"walls", "doors", "windows", "rooms", "mepComponents",
              "structuralElements", "furniture", "fixtures">>

ASSET_TYPES ==
  [walls |-> [count |-> 2300, type |-> "autodesk.revit:wall-2.0.0",
              category |-> "OST_Walls", element_id_start |-> 316000],
   doors |-> [count |-> 400, type |-> "autodesk.revit:door-2.0.0",
              category |-> "OST_Doors", element_id_start |-> 318000],
   windows |-> [count |-> 600, type |-> "autodesk.revit:window-2.0.0",
              category |-> "OST_Windows", element_id_start |-> 319000],
   rooms |-> [count |-> 850, type |-> "autodesk.revit:room-2.0.0",
              category |-> "OST_Rooms", element_id_start |-> 320000],
   mepComponents |-> [count |-> 2000, type |-> "autodesk.mep:hvac-terminal-1.0.0",
              category |-> "OST_DuctTerminal", element_id_start |-> 325000],
   structuralElements |-> [count |-> 1150,
              type |-> "autodesk.revit:structural-framing-2.0.0",
              category |-> "OST_StructuralFraming", element_id_start |-> 330000],
   furniture |-> [count |-> 2300, type |-> "autodesk.revit:furniture-2.0.0",
              category |-> "OST_Furniture", element_id_start |-> 340000],
   fixtures |-> [count |-> 400, type |-> "autodesk.revit:lighting-fixture-2.0.0",
              category |-> "OST_LightingFixtures", element_id_start |-> 350000]]

\* the three-type catalogue of the allocation scenario, weights in tenths
ABCKeys == <<"A", "B", "C">>
ABC_TYPES == [A |-> [count |-> 5], B |-> [count |-> 3], C |-> [count |-> 2]]

\* the values model_id can take: an explicit id, or the timestamp default
ModelIds == {<<"model", "given">>, <<"model", "20260101-000000">>}

\* samples of generate_point3d: the corners of its default ranges
Point3dSamples == {<<0, 0, 0>>, <<100, 100, 15>>}

\* -------------------------------------------------------------- helpers
RECURSIVE SumSeq(_)
SumSeq(s) == IF s = <<>> THEN 0 ELSE Head(s) + SumSeq(Tail(s))

Range(s) == {s[k] : k \in DOMAIN s}

\* decimal digits of a natural number, most significant first
RECURSIVE Digits(_)
Digits(n) == IF n < 10 THEN <<n>> ELSE Append(Digits(n \div 10), n % 10)

\* {index:06d}: at least six digits, zero-padded on the left
Format06d(index) ==
  LET d == Digits(index)
  IN IF Len(d) >= 6 THEN d ELSE [k \in 1..(6 - Len(d)) |-> 0] \o d

\* sum(config['count'] for config in catalogue.values())
TotalDefault(keys, catalogue) ==
  SumSeq([k \in DOMAIN keys |-> catalogue[keys[k]].count])

ProportionalCountMinusOne(total, cnt, total_default, ntypes) ==
  LET c == (total * cnt) \div total_default
  IN IF c <= 1 THEN (IF total >= ntypes THEN 1 ELSE 0) ELSE c - 1

ProportionalCountCeil(total, cnt, total_default, ntypes) ==
  LET c == (total * cnt + total_default - 1) \div total_default
  IN IF c = 0 /\ total >= ntypes THEN 1 ELSE c

\* int(total * (count / total_default)), then the floor-to-1 policy
ProportionalCountFloorAlways(total, cnt, total_default, ntypes) ==
  LET c == (total * cnt) \div total_default
  IN IF c = 0 /\ total > 0 THEN 1 ELSE c

ProportionalCountNoFloor(total, cnt, total_default, ntypes) ==
  (total * cnt) \div total_default

ProportionalCountIntDiv(total, cnt, total_default, ntypes) ==
  LET c == total * (cnt \div total_default)
  IN IF c = 0 /\ total >= ntypes THEN 1 ELSE c

ProportionalCount(total, cnt, total_default, ntypes) ==
  LET c == (total * cnt) \div total_default
  IN IF c = 0 /\ total >= ntypes THEN 1 ELSE c

\* prefix of the asset id, per builder
IdPrefix(asset_type) ==
  CASE asset_type = "walls" -> "wall"
    [] asset_type = "doors" -> "door"
    [] asset_type = "windows" -> "window"
    [] asset_type = "rooms" -> "room"
    [] OTHER -> asset_type

AssetIdSharedPrefix(asset_type, index) == <<"asset", Format06d(index)>>

\* f"{prefix}-{index:06d}"
AssetId(asset_type, index) == <<IdPrefix(asset_type), Format06d(index)>>

GenerateAssetStartOnly(mid, asset_type, index, config) ==
  [modelId |-> mid,
   id |-> AssetId(asset_type, index),
   type |-> config.type,
   components |-> [insertions |-> [metadata |->
      [elementId |-> Digits(config.element_id_start),
       categoryId |-> config.category]]]]

\* the envelope every builder emits (generate_wall .. generate_generic_asset)
GenerateAsset(mid, asset_type, index, config) ==
  [modelId |-> mid,
   id |-> AssetId(asset_type, index),
   type |-> config.type,
   components |-> [insertions |-> [metadata |->
      [elementId |-> Digits(config.element_id_start + index),
       categoryId |-> config.category]]]]

RelConfigsRoomsToRooms ==
  << [type |-> "hosted", from_types |-> <<"doors", "windows">>,
      to_types |-> <<"walls">>, rel_type |-> "autodesk.revit:hosted-1.0.0",
      weight |-> 4],
     [type |-> "roomBounding", from_types |-> <<"rooms">>,
      to_types |-> <<"rooms">>, rel_type |-> "autodesk.revit:roomBounding-1.0.0",
      weight |-> 3],
     [type |-> "serves", from_types |-> <<"mepComponents">>,
      to_types |-> <<"rooms">>, rel_type |-> "autodesk.mep:serves-1.0.0",
      weight |-> 2],
     [type |-> "contains", from_types |-> <<"rooms">>,
      to_types |-> <<"furniture", "fixtures">>,
      rel_type |-> "autodesk.revit:contains-1.0.0", weight |-> 1] >>

\* ------------------------------------------------------------ rel_configs
RelConfigs ==
  << [type |-> "hosted", from_types |-> <<"doors", "windows">>,
      to_types |-> <<"walls">>, rel_type |-> "autodesk.revit:hosted-1.0.0",
      weight |-> 4],
     [type |-> "roomBounding", from_types |-> <<"rooms">>,
      to_types |-> <<"walls">>, rel_type |-> "autodesk.revit:roomBounding-1.0.0",
      weight |-> 3],
     [type |-> "serves", from_types |-> <<"mepComponents">>,
      to_types |-> <<"rooms">>, rel_type |-> "autodesk.mep:serves-1.0.0",
      weight |-> 2],
     [type |-> "contains", from_types |-> <<"rooms">>,
      to_types |-> <<"furniture", "fixtures">>,
      rel_type |-> "autodesk.revit:contains-1.0.0", weight |-> 1] >>

RelationshipIdOneBased(category, index) ==
  <<"rel", category, Format06d(index + 1)>>

\* f"rel-{config['type']}-{i:06d}"
RelationshipId(category, index) == <<"rel", category, Format06d(index)>>

RelationshipPointAlways(mid, config, index, from_asset, to_asset, point) ==
  [modelId |-> mid,
   id |-> RelationshipId(config.type, index),
   type |-> config.rel_type,
   from |-> [assetId |-> from_asset],
   to |-> [assetId |-> to_asset],
   attributes |-> [application |->
      [relationshipType |-> config.type, insertionPoint |-> point]]]

RelationshipSwapped(mid, config, index, from_asset, to_asset, point) ==
  [modelId |-> mid,
   id |-> RelationshipId(config.type, index),
   type |-> config.rel_type,
   from |-> [assetId |-> to_asset],
   to |-> [assetId |-> from_asset],
   attributes |-> [application |->
      IF config.type = "hosted"
      THEN [relationshipType |-> config.type, insertionPoint |-> point]
      ELSE [relationshipType |-> config.type]]]

\* the relationship document of one draw
Relationship(mid, config, index, from_asset, to_asset, point) ==
  [modelId |-> mid,
   id |-> RelationshipId(config.type, index),
   type |-> config.rel_type,
   from |-> [assetId |-> from_asset],
   to |-> [assetId |-> to_asset],
   attributes |-> [application |->
      IF config.type = "hosted"
      THEN [relationshipType |-> config.type, insertionPoint |-> point]
      ELSE [relationshipType |-> config.type]]]

SkipDrawFromOnly(pools, from_type, to_type) == pools[from_type] = <<>>

\* if not pools[from_type] or not pools[to_type]: continue
SkipDraw(pools, from_type, to_type) ==
  pools[from_type] = <<>> \/ pools[to_type] = <<>>

\* calculate_statistics: totalEntities and the distribution, which is read
\* from the lengths of the id pools
CalculateStatistics(asset_list, pools) ==
  [totalEntities |-> Len(asset_list),
   distribution |-> [t \in Range(TypeKeys) |-> Len(pools[t])]]

\* ------------------------------------------------- compound-key transform
TransformAssetSwapped(asset) ==
  [k \in {"_id"} \cup (DOMAIN asset \ {"modelId", "id"}) |->
     IF k \in DOMAIN asset \ {"modelId", "id"} THEN asset[k]
     ELSE [modelId |-> asset["id"], id |-> asset["modelId"]]]

\* _id first, then every field except modelId and id is copied
TransformAsset(asset) ==
  [k \in {"_id"} \cup (DOMAIN asset \ {"modelId", "id"}) |->
     IF k \in DOMAIN asset \ {"modelId", "id"} THEN asset[k]
     ELSE [modelId |-> asset["modelId"], id |-> asset["id"]]]

\* {k: v for k, v in value.items() if k != "assetId"}
WithoutAssetId(value) == [k \in DOMAIN value \ {"assetId"} |-> value[k]]

TransformRelationshipKeepEmpty(rel) ==
  [k \in {"_id"} \cup (DOMAIN rel \ {"modelId", "id"}) |->
     IF k \in {"from", "to"} THEN WithoutAssetId(rel[k])
     ELSE IF k \in DOMAIN rel THEN rel[k]
     ELSE [modelId |-> rel["modelId"], id |-> rel["id"],
           fromAssetId |-> rel["from"]["assetId"],
           toAssetId |-> rel["to"]["assetId"]]]

\* _id first; modelId and id skipped; from/to kept without assetId only when
\* other sub-fields remain; everything else copied
TransformRelationship(rel) ==
  LET copied == {k \in DOMAIN rel \ {"modelId", "id"} :
                   k \in {"from", "to"} => DOMAIN rel[k] \ {"assetId"} # {}}
  IN [k \in {"_id"} \cup copied |->
        IF k \in {"from", "to"} THEN WithoutAssetId(rel[k])
        ELSE IF k \in copied THEN rel[k]
        ELSE [modelId |-> rel["modelId"], id |-> rel["id"],
              fromAssetId |-> rel["from"]["assetId"],
              toAssetId |-> rel["to"]["assetId"]]]

\* ------------------------------------------------------------------ state
VARIABLES
  total_assets,            \* self.total_assets
  total_relationships,     \* self.total_relationships
  model_id,                \* self.model_id
  generated_assets,        \* self.generated_assets
  asset_ids_by_type,       \* self.asset_ids_by_type
  pc,                      \* position inside generate_payload
  calls,                   \* number of generate_payload calls started
  assets,                  \* local list of generate_assets / generate_payload
  type_idx,                \* position of the outer loop over ASSET_TYPES
  count,                   \* the count computed for each type so far
  relationships,           \* local list of generate_relationships
  i,                       \* draw index of the relationship loop
  draw,                    \* config, from_type, to_type of the latest draw
  transformed_assets,      \* local list of generate_payload
  transformed_relationships,
  twin,                    \* a second run fed the same random values
  size_labels,             \* the size labels of the door and window families
  files,                   \* the output files, by name
  rand,                    \* get_property_count: the value of random.random()
  prop_count,              \* the count passed to generate_properties
  properties,              \* generate_properties: the dict being filled
  tenants,                 \* the tenant manifest
  tenant_idx,              \* main of the large-scale generator: tenant loop
  written,                 \* ids written to each tenant directory
  num_models,              \* generate_multi_model_payload: its argument
  model_idx,               \* generate_multi_model_payload: the model loop
  db,                      \* the MongoDB database: collections and indexes
  disk,                    \* the directories and files, by path
  args,                    \* the arguments of the import or export call
  result                   \* the values returned by the calls so far

vars == <<total_assets, total_relationships, model_id, generated_assets,
          asset_ids_by_type, pc, calls, assets, type_idx, count,
          relationships, i, draw, transformed_assets,
          transformed_relationships, twin, size_labels, files, rand,
          prop_count, properties, tenants, tenant_idx, written,
          num_models, model_idx, db, disk, args, result>>

\* the state of AECPayloadGenerator and of generate_payload
generator_vars == <<total_assets, total_relationships, model_id,
                    generated_assets, asset_ids_by_type, calls, assets,
                    type_idx, count, relationships, i, draw,
                    transformed_assets, transformed_relationships>>

\* the state of the other programs and of the detailed run
other_vars == <<twin, size_labels, files, rand, prop_count, properties,
                tenants, tenant_idx, written, num_models, model_idx, db,
                disk, args, result>>

fields == <<total_assets, total_relationships, model_id>>

\* the door and window size labels of ASSET_TYPES, family by family; a label
\* is the sequence of its characters
SIZE_LABELS ==
  [doors |-> << << <<"3", "6", "\"", " ", "x", " ", "8", "4", "\"">>,
                   <<"3", "2", "\"", " ", "x", " ", "8", "0", "\"">>,
                   <<"3", "0", "\"", " ", "x", " ", "8", "0", "\"">> >>,
                << <<"7", "2", "\"", " ", "x", " ", "8", "4", "\"">>,
                   <<"6", "0", "\"", " ", "x", " ", "8", "4", "\"">> >> >>,
   windows |-> << << <<"4", "8", "\"", " ", "x", " ", "7", "2", "\"">>,
                     <<"3", "6", "\"", " ", "x", " ", "6", "0", "\"">>,
                     <<"2", "4", "\"", " ", "x", " ", "4", "8", "\"">> >>,
                  << <<"3", "6", "\"", " ", "x", " ", "4", "8", "\"">>,
                     <<"2", "4", "\"", " ", "x", " ", "3", "6", "\"">> >> >>]

NoTwin == [model_arg |-> "", model_id |-> <<>>, assets |-> <<>>,
           asset_ids_by_type |-> <<>>, relationships |-> <<>>]

\* the state of the multi-model run, of the import and of the export
service_vars == <<num_models, model_idx, db, disk, args, result>>

NoDb == [models |-> <<>>, assets |-> <<>>, relationships |-> <<>>,
         indexes |-> {}]

NoArgs == [input_dir |-> <<>>, output_dir |-> <<>>]

\* no multi-model run, no import and no export is under way
ServicesIdle ==
  /\ num_models = 0
  /\ model_idx = 0
  /\ db = NoDb
  /\ disk = <<>>
  /\ args = NoArgs
  /\ result = <<>>

\* nothing but the generator is running
OthersIdle ==
  /\ twin = NoTwin
  /\ size_labels = SIZE_LABELS
  /\ files = <<>>
  /\ rand = 0
  /\ prop_count = 0
  /\ properties = <<>>
  /\ tenants = <<>>
  /\ tenant_idx = 0
  /\ written = <<>>
  /\ ServicesIdle

NoDraw == [config |-> 0, from_type |-> "", to_type |-> ""]

\* AECPayloadGenerator.__init__, before the first generate_payload call
Init ==
  /\ total_assets \in 0..MaxTotalAssets
  /\ total_relationships \in 0..MaxTotalRelationships
  /\ model_id \in ModelIds
  /\ generated_assets = <<>>
  /\ asset_ids_by_type = [t \in Range(TypeKeys) |-> <<>>]
  /\ pc = "start"
  /\ calls = 0
  /\ assets = <<>>
  /\ type_idx = 0
  /\ count = <<>>
  /\ relationships = <<>>
  /\ i = 0
  /\ draw = NoDraw
  /\ transformed_assets = <<>>
  /\ transformed_relationships = <<>>
  /\ OthersIdle

\* generate_payload is entered; generate_assets starts with an empty list
GenerateAssetsBegin ==
  /\ pc = "start"
  /\ calls < MaxCalls
  /\ calls' = calls + 1
  /\ pc' = "assets"
  /\ assets' = <<>>
  /\ type_idx' = 1
  /\ count' = <<>>
  /\ relationships' = <<>>
  /\ i' = 0
  /\ draw' = NoDraw
  /\ transformed_assets' = <<>>
  /\ transformed_relationships' = <<>>
  /\ UNCHANGED <<fields, generated_assets, asset_ids_by_type>>
  /\ UNCHANGED other_vars

\* one iteration of the loop over ASSET_TYPES: the count of the type, then
\* one asset per index, appended to assets and to the type's id pool
GenerateAssetsOfType ==
  /\ pc = "assets"
  /\ type_idx <= Len(TypeKeys)
  /\ LET asset_type == TypeKeys[type_idx]
         config == ASSET_TYPES[asset_type]
         c == ProportionalCount(total_assets, config.count,
                                TotalDefault(TypeKeys, ASSET_TYPES),
                                Len(TypeKeys))
         built == [k \in 1..c |->
                     GenerateAsset(model_id, asset_type, k - 1, config)]
     IN /\ count' = Append(count, c)
        /\ assets' = assets \o built
        /\ asset_ids_by_type' =
             [asset_ids_by_type EXCEPT
                ![asset_type] = @ \o [k \in 1..c |-> built[k].id]]
  /\ type_idx' = type_idx + 1
  /\ UNCHANGED <<fields, generated_assets, pc, calls, relationships, i, draw,
                 transformed_assets, transformed_relationships>>
  /\ UNCHANGED other_vars

\* generate_assets returns; generate_relationships starts
GenerateAssetsEnd ==
  /\ pc = "assets"
  /\ type_idx > Len(TypeKeys)
  /\ generated_assets' = assets
  /\ relationships' = <<>>
  /\ i' = 0
  /\ pc' = "relationships"
  /\ UNCHANGED <<fields, asset_ids_by_type, calls, assets, type_idx, count,
                 draw, transformed_assets, transformed_relationships>>
  /\ UNCHANGED other_vars

\* one draw whose from-type or to-type pool is empty: continue
DrawSkip ==
  /\ pc = "relationships"
  /\ i < total_relationships
  /\ \E c \in DOMAIN RelConfigs :
       \E f \in DOMAIN RelConfigs[c].from_types :
         \E t \in DOMAIN RelConfigs[c].to_types :
           LET from_type == RelConfigs[c].from_types[f]
               to_type == RelConfigs[c].to_types[t]
           IN /\ SkipDraw(asset_ids_by_type, from_type, to_type)
              /\ draw' = [config |-> c, from_type |-> from_type,
                          to_type |-> to_type]
  /\ i' = i + 1
  /\ UNCHANGED <<fields, generated_assets, asset_ids_by_type, pc, calls,
                 assets, type_idx, count, relationships, transformed_assets,
                 transformed_relationships>>
  /\ UNCHANGED other_vars

\* one draw that passes the pool test: random.choice on each pool (an
\* IndexError when the pool is empty), then the relationship is appended
DrawEmit ==
  /\ pc = "relationships"
  /\ i < total_relationships
  /\ \E c \in DOMAIN RelConfigs :
       \E f \in DOMAIN RelConfigs[c].from_types :
         \E t \in DOMAIN RelConfigs[c].to_types :
           LET from_type == RelConfigs[c].from_types[f]
               to_type == RelConfigs[c].to_types[t]
               from_pool == asset_ids_by_type[from_type]
               to_pool == asset_ids_by_type[to_type]
           IN /\ ~SkipDraw(asset_ids_by_type, from_type, to_type)
              /\ draw' = [config |-> c, from_type |-> from_type,
                          to_type |-> to_type]
              /\ IF from_pool = <<>> \/ to_pool = <<>>
                 THEN /\ pc' = "IndexError"
                      /\ UNCHANGED <<relationships, i>>
                 ELSE /\ \E a \in DOMAIN from_pool, b \in DOMAIN to_pool,
                            p \in Point3dSamples :
                           relationships' = Append(relationships,
                             Relationship(model_id, RelConfigs[c], i,
                                          from_pool[a], to_pool[b], p))
                      /\ i' = i + 1
                      /\ pc' = pc
  /\ UNCHANGED <<fields, generated_assets, asset_ids_by_type, calls, assets,
                 type_idx, count, transformed_assets,
                 transformed_relationships>>
  /\ UNCHANGED other_vars

\* generate_relationships returns
GenerateRelationshipsEnd ==
  /\ pc = "relationships"
  /\ i >= total_relationships
  /\ pc' = "transform_assets"
  /\ UNCHANGED <<fields, generated_assets, asset_ids_by_type, calls, assets,
                 type_idx, count, relationships, i, draw, transformed_assets,
                 transformed_relationships>>
  /\ UNCHANGED other_vars

\* the asset transform loop of generate_payload
TransformAssets ==
  /\ pc = "transform_assets"
  /\ transformed_assets' = [k \in DOMAIN assets |-> TransformAsset(assets[k])]
  /\ pc' = "transform_relationships"
  /\ UNCHANGED <<fields, generated_assets, asset_ids_by_type, calls, assets,
                 type_idx, count, relationships, i, draw,
                 transformed_relationships>>
  /\ UNCHANGED other_vars

\* the relationship transform loop of generate_payload
TransformRelationships ==
  /\ pc = "transform_relationships"
  /\ transformed_relationships' =
       [k \in DOMAIN relationships |-> TransformRelationship(relationships[k])]
  /\ pc' = "done"
  /\ UNCHANGED <<fields, generated_assets, asset_ids_by_type, calls, assets,
                 type_idx, count, relationships, i, draw, transformed_assets>>
  /\ UNCHANGED other_vars

\* generate_payload returns; its locals go out of scope
Return ==
  /\ pc = "done"
  /\ pc' = "start"
  /\ assets' = <<>>
  /\ type_idx' = 0
  /\ count' = <<>>
  /\ relationships' = <<>>
  /\ i' = 0
  /\ draw' = NoDraw
  /\ transformed_assets' = <<>>
  /\ transformed_relationships' = <<>>
  /\ UNCHANGED <<fields, generated_assets, asset_ids_by_type, calls>>
  /\ UNCHANGED other_vars

Next ==
  \/ GenerateAssetsBegin
  \/ GenerateAssetsOfType
  \/ GenerateAssetsEnd
  \/ DrawSkip
  \/ DrawEmit
  \/ GenerateRelationshipsEnd
  \/ TransformAssets
  \/ TransformRelationships
  \/ Return

Spec == Init /\ [][Next]_vars

\* ------------------------------------------- the allocation rule on its own
\* the allocation loop of generate_assets run over the three-type catalogue
InitAlloc ==
  /\ total_assets \in 0..MaxTotalABC
  /\ total_relationships = 0
  /\ model_id = <<"model", "given">>
  /\ generated_assets = <<>>
  /\ asset_ids_by_type = [t \in Range(TypeKeys) |-> <<>>]
  /\ pc = "allocate"
  /\ calls = 0
  /\ assets = <<>>
  /\ type_idx = 1
  /\ count = <<>>
  /\ relationships = <<>>
  /\ i = 0
  /\ draw = NoDraw
  /\ transformed_assets = <<>>
  /\ transformed_relationships = <<>>
  /\ OthersIdle

\* one iteration of the allocation loop: the count of the next type
Allocate ==
  /\ pc = "allocate"
  /\ type_idx <= Len(ABCKeys)
  /\ count' = Append(count,
       ProportionalCount(total_assets, ABC_TYPES[ABCKeys[type_idx]].count,
                         TotalDefault(ABCKeys, ABC_TYPES), Len(ABCKeys)))
  /\ type_idx' = type_idx + 1
  /\ UNCHANGED <<fields, generated_assets, asset_ids_by_type, pc, calls,
                 assets, relationships, i, draw, transformed_assets,
                 transformed_relationships>>
  /\ UNCHANGED other_vars

NextAlloc == Allocate

SpecAlloc == InitAlloc /\ [][NextAlloc]_vars

\* --------------------------------------------- the transform on its own
\* sub-fields a from/to reference may carry besides assetId
ExtraSubFields == {{}, {"label"}}

WithSubFields(ref, extra) ==
  [k \in DOMAIN ref \cup extra |-> IF k \in DOMAIN ref THEN ref[k] ELSE "x"]

\* relationship documents as generate_relationships builds them, and the
\* same documents with further sub-fields on from and on to
RelationshipDocs(mid) ==
  { [r EXCEPT !["from"] = WithSubFields(@, fx), !["to"] = WithSubFields(@, tx)] :
      r \in { Relationship(mid, RelConfigs[c], 0,
                AssetId(RelConfigs[c].from_types[1], 0),
                AssetId(RelConfigs[c].to_types[1], 1), <<0, 0, 0>>) :
              c \in DOMAIN RelConfigs },
      fx \in ExtraSubFields, tx \in ExtraSubFields }

\* generate_payload at its transform loops, holding one asset document and
\* one relationship document
InitTransform ==
  /\ total_assets = 0
  /\ total_relationships = 0
  /\ model_id \in ModelIds
  /\ generated_assets = <<>>
  /\ asset_ids_by_type = [t \in Range(TypeKeys) |-> <<>>]
  /\ pc = "transform_assets"
  /\ calls = 0
  /\ \E k \in DOMAIN TypeKeys :
       assets = <<GenerateAsset(model_id, TypeKeys[k], 0,
                                ASSET_TYPES[TypeKeys[k]])>>
  /\ type_idx = 0
  /\ count = <<>>
  /\ \E r \in RelationshipDocs(model_id) : relationships = <<r>>
  /\ i = 0
  /\ draw = NoDraw
  /\ transformed_assets = <<>>
  /\ transformed_relationships = <<>>
  /\ OthersIdle

\* the generator, and the transform loops applied to single documents
SpecTransform == (Init \/ InitTransform) /\ [][Next]_vars

\* ======================================= the run with its random leaf values
\* Two runs of main in single-model mode with the same arguments, started at
\* different times and fed the same values by the random source, advance in
\* lockstep: the first in the generator's variables, the second in twin.
DetailTotals == {5, 8}
DetailRelationshipTotals == {0, 1}

\* the clocks of the two runs (strftime('%Y%m%d-%H%M%S'))
Now1 == "20260101-000000"
Now2 == "20260101-000001"

\* the --model-id argument: None, or an explicit id
ModelArgs == {"None", "given"}

ModelIdAlwaysDefault(model_arg, now) == <<"model", now>>

\* model_id or f"model-{datetime.now().strftime(...)}"
ModelIdOrDefault(model_arg, now) ==
  IF model_arg # "None" THEN <<"model", model_arg>> ELSE <<"model", now>>

\* a catalogue whose first door label has no number before its first '"'
MALFORMED_LABELS ==
  [SIZE_LABELS EXCEPT !["doors"][1][1] =
     <<"W", "i", "d", "e", "\"", " ", "x", " ", "8", "4", "\"">>]

\* values random.randint returns for the five groups of generate_uuid
HexSamples == {<<0, 0, 0, 0, 0>>, <<255, 4096, 65535, 1, 16>>}

\* hexadecimal digits of a natural number, most significant first
RECURSIVE HexDigits(_)
HexDigits(n) == IF n < 16 THEN <<n>> ELSE Append(HexDigits(n \div 16), n % 16)

\* zero-padding on the left up to a minimal width ({:08x}, {:03d}, ...)
ZeroPad(d, width) ==
  IF Len(d) >= width THEN d ELSE [k \in 1..(width - Len(d)) |-> 0] \o d

\* generate_uuid: five random hex groups and the index as {index:03d}; the
\* groups are joined by '-', the prefix goes into base only, which is unused
GenerateUuid(prefix, index, parts) ==
  << ZeroPad(HexDigits(parts[1]), 8), ZeroPad(HexDigits(parts[2]), 4),
     ZeroPad(HexDigits(parts[3]), 4), ZeroPad(HexDigits(parts[4]), 4),
     ZeroPad(HexDigits(parts[5]), 12), ZeroPad(Digits(index), 3) >>

DigitChars == <<"0", "1", "2", "3", "4", "5", "6", "7", "8", "9">>

\* type_name.split('"')[0]: the text before the first '"'
SplitHead(label) ==
  LET quotes == {k \in DOMAIN label : label[k] = "\""}
  IN IF quotes = {} THEN label
     ELSE SubSeq(label, 1, (CHOOSE k \in quotes : \A q \in quotes : k <= q) - 1)

\* float(text) succeeds on the labels of the model when text is a non-empty
\* run of decimal digits
IsNumber(text) == text # <<>> /\ \A k \in DOMAIN text : text[k] \in Range(DigitChars)

RECURSIVE ToNumber(_)
ToNumber(text) ==
  IF text = <<>> THEN 0
  ELSE 10 * ToNumber(SubSeq(text, 1, Len(text) - 1))
       + (CHOOSE d \in 0..9 : DigitChars[d + 1] = text[Len(text)])

\* float(type_name.split('"')[0]) / 12, as the fraction inches / 12
ParseWidth(label) ==
  IF IsNumber(SplitHead(label)) THEN <<ToNumber(SplitHead(label)), 12>>
  ELSE "ValueError"

HasSizeLabel(asset_type) == asset_type \in {"doors", "windows"}

\* the values the random source returns while one asset is built: the family
\* and type choice (doors and windows) and the groups of generate_uuid
RandomLeaves(asset_type, labels) ==
  IF HasSizeLabel(asset_type)
  THEN LET families == labels[asset_type]
           positions == UNION {DOMAIN families[f] : f \in DOMAIN families}
       IN { r \in [family : DOMAIN families, type_name : positions,
                   uuid : HexSamples] :
              r.type_name \in DOMAIN families[r.family] }
  ELSE { [family |-> 1, type_name |-> 1, uuid |-> u] : u \in HexSamples }

\* the asset document with its random leaves: the envelope, the uniqueId and,
\* for doors and windows, the width parsed from the size label
GenerateAssetDetail(mid, asset_type, index, config, width, uuid_parts) ==
  LET envelope == GenerateAsset(mid, asset_type, index, config)
      metadata == envelope["components"]["insertions"]["metadata"]
  IN [modelId |-> envelope["modelId"],
      id |-> envelope["id"],
      type |-> envelope["type"],
      attributes |-> [system |-> [uniqueId |->
         GenerateUuid(IdPrefix(asset_type), index, uuid_parts)]],
      components |-> [insertions |->
         IF HasSizeLabel(asset_type)
         THEN [metadata |-> metadata, geometry |-> [width |-> width]]
         ELSE [metadata |-> metadata]]]

detail_unchanged == <<total_assets, total_relationships, model_id,
                      size_labels, calls, transformed_assets,
                      transformed_relationships, files, rand, prop_count,
                      properties, tenants, tenant_idx, written,
                      service_vars>>

\* main, single-model mode: the generator is constructed in both runs
InitDetail ==
  /\ total_assets \in DetailTotals
  /\ total_relationships \in DetailRelationshipTotals
  /\ \E model_arg \in ModelArgs :
       /\ model_id = ModelIdOrDefault(model_arg, Now1)
       /\ twin = [model_arg |-> model_arg,
                  model_id |-> ModelIdOrDefault(model_arg, Now2),
                  assets |-> <<>>,
                  asset_ids_by_type |-> [t \in Range(TypeKeys) |-> <<>>],
                  relationships |-> <<>>]
  /\ size_labels \in {SIZE_LABELS, MALFORMED_LABELS}
  /\ generated_assets = <<>>
  /\ asset_ids_by_type = [t \in Range(TypeKeys) |-> <<>>]
  /\ pc = "detail_type"
  /\ calls = 1
  /\ assets = <<>>
  /\ type_idx = 1
  /\ count = <<>>
  /\ relationships = <<>>
  /\ i = 0
  /\ draw = NoDraw
  /\ transformed_assets = <<>>
  /\ transformed_relationships = <<>>
  /\ files = <<>>
  /\ rand = 0
  /\ prop_count = 0
  /\ properties = <<>>
  /\ tenants = <<>>
  /\ tenant_idx = 0
  /\ written = <<>>
  /\ ServicesIdle

\* the head of one iteration of the loop over ASSET_TYPES: the count
DetailCount ==
  /\ pc = "detail_type"
  /\ type_idx <= Len(TypeKeys)
  /\ count' = Append(count,
       ProportionalCount(total_assets, ASSET_TYPES[TypeKeys[type_idx]].count,
                         TotalDefault(TypeKeys, ASSET_TYPES), Len(TypeKeys)))
  /\ i' = 0
  /\ pc' = "detail_asset"
  /\ UNCHANGED <<detail_unchanged, generated_assets, asset_ids_by_type,
                 assets, type_idx, relationships, draw, twin>>

\* one iteration of the inner loop: the builder of the type is called (a
\* ValueError when the chosen size label does not parse), then the asset is
\* appended to assets and its id to the pool of the type
DetailBuildAsset ==
  /\ pc = "detail_asset"
  /\ i < count[type_idx]
  /\ LET asset_type == TypeKeys[type_idx]
         config == ASSET_TYPES[asset_type]
     IN \E r \in RandomLeaves(asset_type, size_labels) :
          /\ LET width == IF HasSizeLabel(asset_type)
                          THEN ParseWidth(
                                 size_labels[asset_type][r.family][r.type_name])
                          ELSE <<0, 1>>
                 asset == GenerateAssetDetail(model_id, asset_type, i, config,
                                              width, r.uuid)
                 other == GenerateAssetDetail(twin.model_id, asset_type, i,
                                              config, width, r.uuid)
             IN IF width = "ValueError"
                THEN /\ pc' = "ValueError"
                     /\ UNCHANGED <<assets, asset_ids_by_type, twin, i>>
                ELSE /\ assets' = Append(assets, asset)
                     /\ asset_ids_by_type' =
                          [asset_ids_by_type EXCEPT
                             ![asset_type] = Append(@, asset["id"])]
                     /\ twin' =
                          [twin EXCEPT
                             !.assets = Append(@, other),
                             !.asset_ids_by_type[asset_type] =
                                Append(@, other["id"])]
                     /\ i' = i + 1
                     /\ pc' = pc
  /\ UNCHANGED <<detail_unchanged, generated_assets, type_idx, count,
                 relationships, draw>>

\* the inner loop is exhausted: the next type
DetailNextType ==
  /\ pc = "detail_asset"
  /\ i >= count[type_idx]
  /\ type_idx' = type_idx + 1
  /\ pc' = "detail_type"
  /\ UNCHANGED <<detail_unchanged, generated_assets, asset_ids_by_type,
                 assets, count, relationships, i, draw, twin>>

\* generate_assets returns; generate_relationships starts
DetailAssetsEnd ==
  /\ pc = "detail_type"
  /\ type_idx > Len(TypeKeys)
  /\ generated_assets' = assets
  /\ relationships' = <<>>
  /\ i' = 0
  /\ pc' = "detail_relationships"
  /\ UNCHANGED <<detail_unchanged, asset_ids_by_type, assets, type_idx,
                 count, draw, twin>>

\* the element of a pool that random.choice picks for a random value
Pick(pool, value) == pool[((value - 1) % Len(pool)) + 1]

\* one draw of the relationship loop, in both runs: the same random values
\* select the config, the types and the positions in the pools
DetailDraw ==
  /\ pc = "detail_relationships"
  /\ i < total_relationships
  /\ \E c \in DOMAIN RelConfigs :
       \E f \in DOMAIN RelConfigs[c].from_types :
         \E t \in DOMAIN RelConfigs[c].to_types :
           LET from_type == RelConfigs[c].from_types[f]
               to_type == RelConfigs[c].to_types[t]
               from_pool == asset_ids_by_type[from_type]
               to_pool == asset_ids_by_type[to_type]
               twin_pools == twin.asset_ids_by_type
           IN /\ draw' = [config |-> c, from_type |-> from_type,
                          to_type |-> to_type]
              /\ IF SkipDraw(asset_ids_by_type, from_type, to_type)
                 THEN /\ relationships' = relationships
                      /\ twin' = twin
                 ELSE \E a \in DOMAIN from_pool, b \in DOMAIN to_pool,
                         p \in Point3dSamples :
                        /\ relationships' = Append(relationships,
                             Relationship(model_id, RelConfigs[c], i,
                                          from_pool[a], to_pool[b], p))
                        /\ twin' =
                             IF SkipDraw(twin_pools, from_type, to_type)
                             THEN twin
                             ELSE [twin EXCEPT !.relationships = Append(@,
                                    Relationship(twin.model_id, RelConfigs[c],
                                      i, Pick(twin_pools[from_type], a),
                                      Pick(twin_pools[to_type], b), p))]
  /\ i' = i + 1
  /\ UNCHANGED <<detail_unchanged, generated_assets, asset_ids_by_type,
                 assets, type_idx, count, pc>>

\* generate_relationships returns in both runs
DetailRelationshipsEnd ==
  /\ pc = "detail_relationships"
  /\ i >= total_relationships
  /\ pc' = "detail_done"
  /\ UNCHANGED <<detail_unchanged, generated_assets, asset_ids_by_type,
                 assets, type_idx, count, relationships, i, draw, twin>>

NextDetail ==
  \/ DetailCount
  \/ DetailBuildAsset
  \/ DetailNextType
  \/ DetailAssetsEnd
  \/ DetailDraw
  \/ DetailRelationshipsEnd

SpecDetail == InitDetail /\ [][NextDetail]_vars

\* ============================ the property bag of the large-scale generator
MaxPropCount == 3

\* values of random.random(), in hundredths, on both sides of each threshold
RandSamples == {0, 49, 50, 74, 75, 94, 95, 99}

PropertyCountRangeSwapped(r) ==
  IF r < 50 THEN <<114, 287>>
  ELSE IF r < 75 THEN <<592, 997>>
  ELSE IF r < 95 THEN <<287, 592>>
  ELSE <<997, 4491>>

\* get_property_count: the arguments of random.randint for a value of rand
PropertyCountRange(r) ==
  IF r < 50 THEN <<114, 287>>
  ELSE IF r < 75 THEN <<287, 592>>
  ELSE IF r < 95 THEN <<592, 997>>
  ELSE <<997, 4491>>

\* property_types: name and value type (the value generators are left out)
PropertyTypes ==
  << [name |-> "area", value_type |-> "Float64"],
     [name |-> "volume", value_type |-> "Float64"],
     [name |-> "length", value_type |-> "Float64"],
     [name |-> "width", value_type |-> "Float64"],
     [name |-> "height", value_type |-> "Float64"],
     [name |-> "cost", value_type |-> "Float64"],
     [name |-> "mark", value_type |-> "String"],
     [name |-> "comments", value_type |-> "String"] >>

PropKeyBare(prop_name, slot) == <<prop_name>>

PropKeyAlwaysSuffixed(prop_name, slot) == <<prop_name, Digits(slot)>>

\* f"{prop_name}_{i}" if i > 0 else prop_name
PropKey(prop_name, slot) ==
  IF slot > 0 THEN <<prop_name, Digits(slot)>> ELSE <<prop_name>>

\* a Python dict as the sequence of its items in insertion order;
\* d[key] = value replaces the value of a key already present
DictSet(d, key, value) ==
  IF \E k \in DOMAIN d : d[k].key = key
  THEN [k \in DOMAIN d |-> IF d[k].key = key
                           THEN [key |-> key, value |-> value] ELSE d[k]]
  ELSE Append(d, [key |-> key, value |-> value])

\* the entry written for one slot
PropertyEntry(ptype) ==
  [typeId |-> <<"autodesk.revit.parameter:", ptype.name, "-1.0.0">>,
   staticChildren |-> [value |-> [typeId |-> ptype.value_type]]]

props_unchanged == <<total_assets, total_relationships, model_id,
                     generated_assets, asset_ids_by_type, calls, assets,
                     type_idx, count, relationships, draw,
                     transformed_assets, transformed_relationships, twin,
                     size_labels, files, tenants, tenant_idx, written,
                     service_vars>>

\* generate_asset is about to call get_property_count, or
\* generate_properties is entered with a count
InitProps ==
  /\ total_assets = 0
  /\ total_relationships = 0
  /\ model_id = <<"model", "given">>
  /\ generated_assets = <<>>
  /\ asset_ids_by_type = [t \in Range(TypeKeys) |-> <<>>]
  /\ calls = 0
  /\ assets = <<>>
  /\ type_idx = 0
  /\ count = <<>>
  /\ relationships = <<>>
  /\ i = 0
  /\ draw = NoDraw
  /\ transformed_assets = <<>>
  /\ transformed_relationships = <<>>
  /\ twin = NoTwin
  /\ size_labels = SIZE_LABELS
  /\ files = <<>>
  /\ rand = 0
  /\ properties = <<>>
  /\ tenants = <<>>
  /\ tenant_idx = 0
  /\ written = <<>>
  /\ ServicesIdle
  /\ \/ pc = "get_property_count" /\ prop_count = 0
     \/ pc = "generate_properties" /\ prop_count \in 0..MaxPropCount

\* get_property_count: random.random(), then random.randint on the bucket
GetPropertyCount ==
  /\ pc = "get_property_count"
  /\ \E r \in RandSamples :
       /\ rand' = r
       /\ \E n \in PropertyCountRange(r)[1]..PropertyCountRange(r)[2] :
            prop_count' = n
  /\ pc' = "property_count"
  /\ UNCHANGED <<props_unchanged, properties, i>>

\* one slot of generate_properties
GeneratePropertySlot ==
  /\ pc = "generate_properties"
  /\ i < prop_count
  /\ \E t \in DOMAIN PropertyTypes :
       properties' = DictSet(properties, PropKey(PropertyTypes[t].name, i),
                             PropertyEntry(PropertyTypes[t]))
  /\ i' = i + 1
  /\ UNCHANGED <<props_unchanged, rand, prop_count, pc>>

\* generate_properties returns the dict
GeneratePropertiesReturn ==
  /\ pc = "generate_properties"
  /\ i >= prop_count
  /\ pc' = "properties"
  /\ UNCHANGED <<props_unchanged, rand, prop_count, properties, i>>

NextProps ==
  \/ GetPropertyCount
  \/ GeneratePropertySlot
  \/ GeneratePropertiesReturn

SpecProps == InitProps /\ [][NextProps]_vars

\* ============================ the multi-tenant generator (main)
MaxTenantAssets == 2
MaxTenantRels == 2

SPACES == {<<"space-level-", Digits(n)>> : n \in 1..5}

\* the four loops of generate_tenant_manifest: number of tenants, offset of
\* the tenant number, and the two counts of every tenant of the tier
TIERS ==
  << [n |-> 35, offset |-> 0, asset_count |-> 17000,
      relationship_count |-> 51000, category |-> "small"],
     [n |-> 12, offset |-> 35, asset_count |-> 27616,
      relationship_count |-> 82848, category |-> "medium"],
     [n |-> 2, offset |-> 47, asset_count |-> 130200,
      relationship_count |-> 390600, category |-> "large"],
     [n |-> 1, offset |-> 49, asset_count |-> 15900,
      relationship_count |-> 47700, category |-> "enterprise"] >>

\* the same four loops with counts that the tenant loop of main can run
ScaledTiers ==
  << [n |-> 2, offset |-> 0, asset_count |-> MaxTenantAssets,
      relationship_count |-> MaxTenantRels, category |-> "small"],
     [n |-> 1, offset |-> 35, asset_count |-> 1,
      relationship_count |-> MaxTenantRels, category |-> "medium"],
     [n |-> 1, offset |-> 47, asset_count |-> MaxTenantAssets,
      relationship_count |-> 1, category |-> "large"],
     [n |-> 1, offset |-> 49, asset_count |-> 1,
      relationship_count |-> 1, category |-> "enterprise"] >>

\* f'tenant_{offset+i+1:04d}'
TenantId(number) == <<"tenant_", ZeroPad(Digits(number), 4)>>

\* the tenants appended by one loop
TierTenants(tier) ==
  [k \in 1..tier.n |->
     [tenant_id |-> TenantId(tier.offset + (k - 1) + 1),
      asset_count |-> tier.asset_count,
      relationship_count |-> tier.relationship_count,
      category |-> tier.category]]

GenerateTenantManifest(tiers) ==
  TierTenants(tiers[1]) \o TierTenants(tiers[2])
    \o TierTenants(tiers[3]) \o TierTenants(tiers[4])

\* f"{tenant_id}-asset-{asset_num:06d}"
RevitAssetId(tenant_id, asset_num) ==
  <<tenant_id, "-asset-", Format06d(asset_num)>>

\* generate_asset: the identifying fields (the other leaves are random or
\* constant)
RevitAsset(tenant_id, asset_num, space_id) ==
  [assetId |-> RevitAssetId(tenant_id, asset_num),
   revisionId |-> <<RevitAssetId(tenant_id, asset_num), "-rev-1">>,
   tenantId |-> tenant_id,
   spaceId |-> space_id,
   shardKey |-> <<tenant_id, ":", space_id>>,
   elementId |-> Digits(asset_num)]

RevitAssetRefZeroBased(tenant_id, idx) ==
  <<tenant_id, "-asset-", Format06d(idx)>>

\* f"{tenant_id}-asset-{source_idx + 1:06d}"
RevitAssetRef(tenant_id, idx) ==
  <<tenant_id, "-asset-", Format06d(idx + 1)>>

\* generate_relationship
RevitRelationship(tenant_id, rel_num, source_asset_id, target_asset_id) ==
  [relationshipId |-> <<tenant_id, "-rel-", Format06d(rel_num)>>,
   tenantId |-> tenant_id,
   fromAssetId |-> source_asset_id,
   toAssetId |-> target_asset_id]

\* json.dump of a list into a file of the tenant's directory: the model keeps
\* the identifiers of the documents, in order
Dump(dir, name, docs, idfield) ==
  [dir |-> dir, name |-> name,
   ids |-> [k \in DOMAIN docs |-> docs[k][idfield]]]

revit_unchanged == <<total_assets, total_relationships, model_id,
                     generated_assets, asset_ids_by_type, calls, type_idx,
                     count, draw, transformed_assets,
                     transformed_relationships, twin, size_labels, files,
                     rand, prop_count, properties,
                     service_vars>>

InitRevit ==
  /\ total_assets = 0
  /\ total_relationships = 0
  /\ model_id = <<"model", "given">>
  /\ generated_assets = <<>>
  /\ asset_ids_by_type = [t \in Range(TypeKeys) |-> <<>>]
  /\ calls = 0
  /\ assets = <<>>
  /\ type_idx = 0
  /\ count = <<>>
  /\ relationships = <<>>
  /\ i = 0
  /\ draw = NoDraw
  /\ transformed_assets = <<>>
  /\ transformed_relationships = <<>>
  /\ OthersIdle
  /\ pc = "manifest"

\* tenants = generate_tenant_manifest()
RevitManifest ==
  /\ pc = "manifest"
  /\ \E tiers \in {TIERS, ScaledTiers} :
       tenants' = GenerateTenantManifest(tiers)
  /\ tenant_idx' = 1
  /\ pc' = "tenant"
  /\ UNCHANGED <<revit_unchanged, assets, relationships, i, written>>

\* the next tenant of the loop; assets = []
TenantBegin ==
  /\ pc = "tenant"
  /\ tenant_idx <= Len(tenants)
  /\ tenants[tenant_idx].asset_count <= MaxTenantAssets
  /\ tenants[tenant_idx].relationship_count <= MaxTenantRels
  /\ assets' = <<>>
  /\ i' = 0
  /\ pc' = "tenant_assets"
  /\ UNCHANGED <<revit_unchanged, tenants, tenant_idx, relationships,
                 written>>

\* one turn of the asset loop
TenantGenerateAsset ==
  /\ pc = "tenant_assets"
  /\ i < tenants[tenant_idx].asset_count
  /\ \E space_id \in SPACES :
       assets' = Append(assets, RevitAsset(tenants[tenant_idx].tenant_id,
                                           i + 1, space_id))
  /\ i' = i + 1
  /\ UNCHANGED <<revit_unchanged, tenants, tenant_idx, relationships,
                 written, pc>>

\* assets.json is written; relationships = []
TenantSaveAssets ==
  /\ pc = "tenant_assets"
  /\ i >= tenants[tenant_idx].asset_count
  /\ written' = Append(written, Dump(tenants[tenant_idx].tenant_id,
                                     "assets.json", assets, "assetId"))
  /\ relationships' = <<>>
  /\ i' = 0
  /\ pc' = "tenant_relationships"
  /\ UNCHANGED <<revit_unchanged, tenants, tenant_idx, assets>>

\* one turn of the relationship loop
TenantGenerateRelationship ==
  /\ pc = "tenant_relationships"
  /\ i < tenants[tenant_idx].relationship_count
  /\ \E source_idx, target_idx \in 0..(tenants[tenant_idx].asset_count - 1) :
       relationships' =
         Append(relationships,
                RevitRelationship(
                  tenants[tenant_idx].tenant_id, i + 1,
                  RevitAssetRef(tenants[tenant_idx].tenant_id, source_idx),
                  RevitAssetRef(tenants[tenant_idx].tenant_id, target_idx)))
  /\ i' = i + 1
  /\ UNCHANGED <<revit_unchanged, tenants, tenant_idx, assets, written, pc>>

\* relationships.json is written; the loop moves to the next tenant
TenantSaveRelationships ==
  /\ pc = "tenant_relationships"
  /\ i >= tenants[tenant_idx].relationship_count
  /\ written' = Append(written, Dump(tenants[tenant_idx].tenant_id,
                                     "relationships.json", relationships,
                                     "relationshipId"))
  /\ tenant_idx' = tenant_idx + 1
  /\ pc' = "tenant"
  /\ UNCHANGED <<revit_unchanged, tenants, assets, relationships, i>>

\* the loop over the tenants is over
RevitDone ==
  /\ pc = "tenant"
  /\ tenant_idx > Len(tenants)
  /\ pc' = "revit_done"
  /\ UNCHANGED <<revit_unchanged, tenants, tenant_idx, assets,
                 relationships, i, written>>

NextRevit ==
  \/ RevitManifest
  \/ TenantBegin
  \/ TenantGenerateAsset
  \/ TenantSaveAssets
  \/ TenantGenerateRelationship
  \/ TenantSaveRelationships
  \/ RevitDone

SpecRevit == InitRevit /\ [][NextRevit]_vars

\* ============================ the files: JSON array and JSON lines
MaxDocs == 2

\* JSON values as json.dump sees them; a text is a sequence of segments, and
\* every character with a role in the framing (quote, backslash, newline,
\* space, bracket, brace, comma, colon) is a segment of its own
JStr(s) == [t |-> "str", v |-> s]
JNum(literal) == [t |-> "num", v |-> <<literal>>]
JNull == [t |-> "null", v |-> <<>>]
JArr(items) == [t |-> "arr", v |-> items]
JObj(members) == [t |-> "obj", v |-> members]
JError == [t |-> "error", v |-> <<>>]

NumberLiterals == {"0.0", "3.0", "12.5", "84"}

\* transformed asset documents: a door with a size label, and a wall
DoorDoc ==
  JObj(<< << <<"_id">>, JObj(<< << <<"modelId">>, JStr(<<"model-given">>) >>,
                               << <<"id">>, JStr(<<"door-000000">>) >> >>) >>,
          << <<"type">>, JStr(<<"autodesk.revit:door-2.0.0">>) >>,
          << <<"typeName">>, JStr(<<"36", "\"", " ", "x", " ", "84", "\"">>) >>,
          << <<"location">>, JArr(<<JNum("12.5"), JNum("0.0"), JNum("3.0")>>) >>
       >>)

WallDoc ==
  JObj(<< << <<"_id">>, JObj(<< << <<"modelId">>, JStr(<<"model-given">>) >>,
                               << <<"id">>, JStr(<<"wall-000000">>) >> >>) >>,
          << <<"type">>, JStr(<<"autodesk.revit:wall-2.0.0">>) >>,
          << <<"typeName">>, JStr(<<"Generic", " ", "-", " ", "8", "\"">>) >>
       >>)

\* transformed relationship documents
RelationshipDoc(category, to_id) ==
  JObj(<< << <<"_id">>,
             JObj(<< << <<"modelId">>, JStr(<<"model-given">>) >>,
                     << <<"id">>, JStr(<<"rel-", category, "-000000">>) >>,
                     << <<"fromAssetId">>, JStr(<<"wall-000000">>) >>,
                     << <<"toAssetId">>, JStr(<<to_id>>) >> >>) >>,
          << <<"type">>, JStr(<<"autodesk.revit:relationship-2.0.0">>) >>,
          << <<"position">>, JArr(<<JNum("0.0"), JNum("84")>>) >> >>)

SampleAssetDocs == {DoorDoc, WallDoc}

SampleRelationshipDocs ==
  {RelationshipDoc("hosts", "door-000000"),
   RelationshipDoc("contains", "wall-000000")}

\* the lists of at most MaxDocs documents
DocLists(samples) ==
  UNION {[1..n -> samples] : n \in 0..MaxDocs}

EscapeChar(c) ==
  IF c = "\"" THEN <<"\\", "\"">>
  ELSE IF c = "\\" THEN <<"\\", "\\">>
  ELSE IF c = "\n" THEN <<"\\", "n">>
  ELSE <<c>>

EscapeNone(s) == s

\* json.dumps of the characters of a str
RECURSIVE Escape(_)
Escape(s) == IF s = <<>> THEN <<>> ELSE EscapeChar(Head(s)) \o Escape(Tail(s))

\* indent=2: a newline and two spaces per level; nothing without indent
NewlineIndent(pretty, level) ==
  IF pretty THEN <<"\n">> \o [k \in 1..(2 * level) |-> " "] ELSE <<>>

\* item separator: "," and a new line with indent, or ", " without
ItemSeparator(pretty, level) ==
  IF pretty THEN <<",">> \o NewlineIndent(pretty, level) ELSE <<",", " ">>

RECURSIVE Dumps(_, _, _)
RECURSIVE DumpItems(_, _, _)
RECURSIVE DumpMembers(_, _, _)

\* json.dumps(value) and json.dump(value, f, indent=2)
Dumps(value, pretty, level) ==
  CASE value.t = "str" -> <<"\"">> \o Escape(value.v) \o <<"\"">>
    [] value.t = "num" -> value.v
    [] value.t = "null" -> <<"null">>
    [] value.t = "arr" ->
         IF Len(value.v) = 0 THEN <<"[", "]">>
         ELSE <<"[">> \o NewlineIndent(pretty, level + 1)
                \o DumpItems(value.v, pretty, level + 1)
                \o NewlineIndent(pretty, level) \o <<"]">>
    [] value.t = "obj" ->
         IF Len(value.v) = 0 THEN <<"{", "}">>
         ELSE <<"{">> \o NewlineIndent(pretty, level + 1)
                \o DumpMembers(value.v, pretty, level + 1)
                \o NewlineIndent(pretty, level) \o <<"}">>

DumpItems(items, pretty, level) ==
  IF Len(items) = 1 THEN Dumps(items[1], pretty, level)
  ELSE Dumps(items[1], pretty, level) \o ItemSeparator(pretty, level)
         \o DumpItems(Tail(items), pretty, level)

DumpMembers(members, pretty, level) ==
  LET member == <<"\"">> \o Escape(members[1][1]) \o <<"\"", ":", " ">>
                  \o Dumps(members[1][2], pretty, level)
  IN IF Len(members) = 1 THEN member
     ELSE member \o ItemSeparator(pretty, level)
            \o DumpMembers(Tail(members), pretty, level)

RECURSIVE DumpLinesNoNewline(_)
DumpLinesNoNewline(docs) ==
  IF docs = <<>> THEN <<>>
  ELSE Dumps(Head(docs), FALSE, 0) \o DumpLinesNoNewline(Tail(docs))

\* for item in data: f.write(json.dumps(item) + '\n')
RECURSIVE DumpLines(_)
DumpLines(docs) ==
  IF docs = <<>> THEN <<>>
  ELSE Dumps(Head(docs), FALSE, 0) \o <<"\n">> \o DumpLines(Tail(docs))

\* ---- reading the text back (json.load, json.loads)
Fail == [ok |-> FALSE, val |-> JError, rest |-> <<>>]

\* the text from its first segment that is not white space
SkipWs(text) ==
  LET solid == {k \in DOMAIN text : text[k] \notin {" ", "\n"}}
  IN IF solid = {} THEN <<>>
     ELSE SubSeq(text, CHOOSE k \in solid : \A h \in solid : k <= h,
                 Len(text))

Unescape(c) == IF c = "n" THEN "\n" ELSE c

\* the characters of a string, up to its closing quote
RECURSIVE ParseString(_, _)
ParseString(text, acc) ==
  IF text = <<>> THEN Fail
  ELSE IF Head(text) = "\"" THEN
    [ok |-> TRUE, val |-> JStr(acc), rest |-> Tail(text)]
  ELSE IF Head(text) = "\\" THEN
    IF Len(text) < 2 THEN Fail
    ELSE ParseString(Tail(Tail(text)), Append(acc, Unescape(text[2])))
  ELSE IF Head(text) = "\n" THEN Fail
  ELSE ParseString(Tail(text), Append(acc, Head(text)))

RECURSIVE ParseValue(_)
RECURSIVE ParseItems(_, _)
RECURSIVE ParseMembers(_, _)

ParseValue(text) ==
  LET t == SkipWs(text)
  IN IF t = <<>> THEN Fail
     ELSE IF Head(t) = "\"" THEN ParseString(Tail(t), <<>>)
     ELSE IF Head(t) = "[" THEN
       LET u == SkipWs(Tail(t))
       IN IF u # <<>> /\ Head(u) = "]"
          THEN [ok |-> TRUE, val |-> JArr(<<>>), rest |-> Tail(u)]
          ELSE ParseItems(Tail(t), <<>>)
     ELSE IF Head(t) = "{" THEN
       LET u == SkipWs(Tail(t))
       IN IF u # <<>> /\ Head(u) = "}"
          THEN [ok |-> TRUE, val |-> JObj(<<>>), rest |-> Tail(u)]
          ELSE ParseMembers(Tail(t), <<>>)
     ELSE IF Head(t) = "null" THEN
       [ok |-> TRUE, val |-> JNull, rest |-> Tail(t)]
     ELSE IF Head(t) \in NumberLiterals THEN
       [ok |-> TRUE, val |-> JNum(Head(t)), rest |-> Tail(t)]
     ELSE Fail

ParseItems(text, acc) ==
  LET r == ParseValue(text)
      u == SkipWs(r.rest)
  IN IF ~r.ok \/ u = <<>> THEN Fail
     ELSE IF Head(u) = "," THEN ParseItems(Tail(u), Append(acc, r.val))
     ELSE IF Head(u) = "]" THEN
       [ok |-> TRUE, val |-> JArr(Append(acc, r.val)), rest |-> Tail(u)]
     ELSE Fail

ParseMembers(text, acc) ==
  LET t == SkipWs(text)
      k == IF t # <<>> /\ Head(t) = "\"" THEN ParseString(Tail(t), <<>>)
           ELSE Fail
      c == SkipWs(k.rest)
      r == IF k.ok /\ c # <<>> /\ Head(c) = ":" THEN ParseValue(Tail(c))
           ELSE Fail
      u == SkipWs(r.rest)
      members == Append(acc, <<k.val.v, r.val>>)
  IN IF ~r.ok \/ u = <<>> THEN Fail
     ELSE IF Head(u) = "," THEN ParseMembers(Tail(u), members)
     ELSE IF Head(u) = "}" THEN
       [ok |-> TRUE, val |-> JObj(members), rest |-> Tail(u)]
     ELSE Fail

\* json.load / json.loads: one value, then nothing but white space
JsonLoads(text) ==
  LET r == ParseValue(text)
  IN IF r.ok /\ SkipWs(r.rest) = <<>> THEN r.val ELSE JError

\* the lines of a text file: every newline ends a line, and what follows
\* the last newline is a line when it is not empty
SplitLines(text) ==
  LET ends == {k \in DOMAIN text : text[k] = "\n"}
      starts == {1} \cup {k + 1 : k \in ends}
      StartOf(n) == CHOOSE k \in starts :
                      Cardinality({h \in starts : h < k}) = n - 1
      EndOf(n) == IF \E k \in ends : k >= StartOf(n)
                  THEN (CHOOSE k \in ends :
                          /\ k >= StartOf(n)
                          /\ \A h \in ends : h >= StartOf(n) => k <= h) - 1
                  ELSE Len(text)
      all == [n \in 1..Cardinality(starts) |->
                SubSeq(text, StartOf(n), EndOf(n))]
  IN IF all[Len(all)] = <<>> THEN SubSeq(all, 1, Len(all) - 1) ELSE all

\* the documents of an array file
ParseArray(text) ==
  LET data == JsonLoads(text)
  IN IF data.t = "arr" THEN data.v ELSE <<JError>>

\* the documents of a file with one document per line
ParseLines(text) ==
  LET lines == SplitLines(text)
  IN [k \in DOMAIN lines |-> JsonLoads(lines[k])]

\* open(name, 'w') and the writes: the file has exactly this text
WriteFile(fs, name, text) ==
  [n \in DOMAIN fs \cup {name} |-> IF n = name THEN text ELSE fs[n]]

\* convert_to_jsonl: nothing is written unless the input is an array
ConvertToJsonl(fs, input_file, output_file) ==
  LET data == JsonLoads(fs[input_file])
  IN IF data.t # "arr" THEN fs
     ELSE WriteFile(fs, output_file, DumpLines(data.v))

files_unchanged == <<total_assets, total_relationships, model_id,
                     generated_assets, asset_ids_by_type, calls, assets,
                     type_idx, count, relationships, i, draw,
                     transformed_assets, transformed_relationships, twin,
                     size_labels, rand, prop_count, properties, tenants,
                     tenant_idx, written, service_vars>>

\* generate_payload has transformed the documents and is about to save them
InitFiles ==
  /\ total_assets = 0
  /\ total_relationships = 0
  /\ model_id = <<"model", "given">>
  /\ generated_assets = <<>>
  /\ asset_ids_by_type = [t \in Range(TypeKeys) |-> <<>>]
  /\ calls = 0
  /\ assets = <<>>
  /\ type_idx = 0
  /\ count = <<>>
  /\ relationships = <<>>
  /\ i = 0
  /\ draw = NoDraw
  /\ transformed_assets \in DocLists(SampleAssetDocs)
  /\ transformed_relationships \in DocLists(SampleRelationshipDocs)
  /\ OthersIdle
  /\ pc = "save_assets"

\* assets.json and assets.jsonl
SaveAssets ==
  /\ pc = "save_assets"
  /\ files' = WriteFile(
                WriteFile(files, "assets.json",
                          Dumps(JArr(transformed_assets), TRUE, 0)),
                "assets.jsonl", DumpLines(transformed_assets))
  /\ pc' = "save_relationships"
  /\ UNCHANGED files_unchanged

\* relationships.json and relationships.jsonl
SaveRelationships ==
  /\ pc = "save_relationships"
  /\ files' = WriteFile(
                WriteFile(files, "relationships.json",
                          Dumps(JArr(transformed_relationships), TRUE, 0)),
                "relationships.jsonl", DumpLines(transformed_relationships))
  /\ pc' = "saved"
  /\ UNCHANGED files_unchanged

\* convert_to_jsonl.py on the output directory: assets.json
ConvertAssets ==
  /\ pc = "saved"
  /\ "assets.json" \in DOMAIN files
  /\ files' = ConvertToJsonl(files, "assets.json", "assets.jsonl")
  /\ pc' = "converted_assets"
  /\ UNCHANGED files_unchanged

\* convert_to_jsonl.py on the output directory: relationships.json
ConvertRelationships ==
  /\ pc = "converted_assets"
  /\ "relationships.json" \in DOMAIN files
  /\ files' = ConvertToJsonl(files, "relationships.json",
                             "relationships.jsonl")
  /\ pc' = "converted"
  /\ UNCHANGED files_unchanged

NextFiles ==
  \/ SaveAssets
  \/ SaveRelationships
  \/ ConvertAssets
  \/ ConvertRelationships

SpecFiles == InitFiles /\ [][NextFiles]_vars

\* ============== the allocation over the catalogue, up to the default total
MaxCatalogueTotal == 10000

\* generate_assets is at its loop over ASSET_TYPES
InitCatalogue ==
  /\ total_assets \in 0..MaxCatalogueTotal
  /\ total_relationships = 0
  /\ model_id = <<"model", "given">>
  /\ generated_assets = <<>>
  /\ asset_ids_by_type = [t \in Range(TypeKeys) |-> <<>>]
  /\ pc = "catalogue"
  /\ calls = 0
  /\ assets = <<>>
  /\ type_idx = 1
  /\ count = <<>>
  /\ relationships = <<>>
  /\ i = 0
  /\ draw = NoDraw
  /\ transformed_assets = <<>>
  /\ transformed_relationships = <<>>
  /\ OthersIdle

\* the count of the next catalogue type; the assets of the type get the
\* indices 0 .. count - 1
AllocateCatalogue ==
  /\ pc = "catalogue"
  /\ type_idx <= Len(TypeKeys)
  /\ count' = Append(count,
       ProportionalCount(total_assets, ASSET_TYPES[TypeKeys[type_idx]].count,
                         TotalDefault(TypeKeys, ASSET_TYPES), Len(TypeKeys)))
  /\ type_idx' = type_idx + 1
  /\ UNCHANGED <<fields, generated_assets, asset_ids_by_type, pc, calls,
                 assets, relationships, i, draw, transformed_assets,
                 transformed_relationships>>
  /\ UNCHANGED other_vars

NextCatalogue == AllocateCatalogue

SpecCatalogue == InitCatalogue /\ [][NextCatalogue]_vars

\* ============================ the import into MongoDB and the JSONL export
MaxImportRuns == 2

\* a directory, and a file holding documents: one for a .json file, one per
\* line for a .jsonl file (the text of the files is the subject of SpecFiles)
Dir == [kind |-> "dir", docs |-> <<>>]
File(docs) == [kind |-> "file", docs |-> docs]

\* Path.exists()
Exists(d, path) == path \in DOMAIN d

\* the entries of a directory
Children(d, dir) ==
  {p \in DOMAIN d : Len(p) = Len(dir) + 1 /\ SubSeq(p, 1, Len(dir)) = dir}

\* a listing is in some order that depends on the directory only
RECURSIVE Listing(_)
Listing(paths) ==
  IF paths = {} THEN <<>>
  ELSE LET p == CHOOSE q \in paths : TRUE
       IN <<p>> \o Listing(paths \ {p})

\* list(dir.glob("*.json")): the files of the directory
Glob(d, dir) == Listing({p \in Children(d, dir) : d[p].kind = "file"})

\* the documents json.load reads from the files of a listing
LoadAll(d, listing) == [k \in DOMAIN listing |-> d[listing[k]].docs[1]]

\* Path.mkdir(parents=True, exist_ok=True)
Mkdir(d, path) ==
  LET made == {SubSeq(path, 1, n) : n \in 1..Len(path)}
  IN [p \in DOMAIN d \cup made |-> IF p \in DOMAIN d THEN d[p] ELSE Dir]

\* open(path, 'w') and the writes
WriteDocs(d, path, docs) ==
  [p \in DOMAIN d \cup {path} |-> IF p = path THEN File(docs) ELSE d[p]]

\* ---- the input directory
InputDir == <<"in">>

InputModelId == <<"model", "given">>

ModelDocument ==
  [modelId |-> InputModelId,
   generationInfo |-> [totalAssets |-> 2, totalRelationships |-> 2]]

\* asset files: a wall, a door, and a second file with the wall's key
ImportAssetFiles ==
  ("a1.json" :> GenerateAsset(InputModelId, "walls", 0, ASSET_TYPES["walls"]))
  @@ ("a2.json" :> GenerateAsset(InputModelId, "doors", 0,
                                 ASSET_TYPES["doors"]))
  @@ ("a3.json" :> [GenerateAsset(InputModelId, "walls", 0,
                                  ASSET_TYPES["walls"])
                      EXCEPT !["type"] = "autodesk.revit:wall-2.1.0"])

ImportRelationshipFiles ==
  ("r1.json" :> Relationship(InputModelId, RelConfigs[1], 0,
                             AssetId("doors", 0), AssetId("walls", 0),
                             <<0, 0, 0>>))
  @@ ("r2.json" :> Relationship(InputModelId, RelConfigs[2], 1,
                                AssetId("rooms", 0), AssetId("walls", 0),
                                <<0, 0, 0>>))

Structures == {"complete", "no_input", "no_model", "no_assets",
               "no_relationships"}

\* an input directory with the given parts and files
DirectoryWith(structure, asset_names, rel_names) ==
  LET asset_paths == IF structure = "no_assets" THEN {}
                     ELSE {InputDir \o <<"assets">>}
                            \cup {InputDir \o <<"assets", n>> : n \in asset_names}
      rel_paths == IF structure = "no_relationships" THEN {}
                   ELSE {InputDir \o <<"relationships">>}
                          \cup {InputDir \o <<"relationships", n>> :
                                  n \in rel_names}
      model_paths == IF structure = "no_model" THEN {}
                     ELSE {InputDir \o <<"model.json">>}
      paths == IF structure = "no_input" THEN {}
               ELSE {InputDir} \cup model_paths \cup asset_paths \cup rel_paths
  IN [p \in paths |->
        IF p = InputDir \o <<"model.json">> THEN File(<<ModelDocument>>)
        ELSE IF Len(p) = 3 /\ p[2] = "assets"
          THEN File(<<ImportAssetFiles[p[3]]>>)
        ELSE IF Len(p) = 3 /\ p[2] = "relationships"
          THEN File(<<ImportRelationshipFiles[p[3]]>>)
        ELSE Dir]

InputDirectories ==
  {DirectoryWith(s, an, rn) :
     s \in Structures, an \in SUBSET DOMAIN ImportAssetFiles,
     rn \in SUBSET DOMAIN ImportRelationshipFiles}

\* ---- the database
\* a database that already holds an older document of the wall, and an
\* asset of another model
StaleDb ==
  [models |-> <<>>,
   assets |-> << [oid |-> 1,
                  doc |-> [GenerateAsset(InputModelId, "walls", 0,
                                         ASSET_TYPES["walls"])
                             EXCEPT !["type"] = "autodesk.revit:wall-1.0.0"]],
                 [oid |-> 2,
                  doc |-> GenerateAsset(<<"model", "other">>, "walls", 0,
                                        ASSET_TYPES["walls"])] >>,
   relationships |-> <<>>,
   indexes |-> {}]

InsertOne(coll, key_fields, doc) ==
  Append(coll, [oid |-> Len(coll) + 1, doc |-> doc])

\* replace_one(filter, doc, upsert=True): the first stored document that
\* matches the filter is replaced and keeps its _id; without a match the
\* document is inserted
ReplaceOne(coll, key_fields, doc) ==
  LET matches == {k \in DOMAIN coll :
                    \A f \in key_fields : coll[k].doc[f] = doc[f]}
  IN IF matches = {} THEN Append(coll, [oid |-> Len(coll) + 1, doc |-> doc])
     ELSE [coll EXCEPT ![CHOOSE k \in matches : \A h \in matches : k <= h]
                          = [oid |-> @.oid, doc |-> doc]]

\* for doc in batch_docs: collection.replace_one(...)
RECURSIVE ReplaceAll(_, _, _)
ReplaceAll(coll, key_fields, docs) ==
  IF docs = <<>> THEN coll
  ELSE ReplaceAll(ReplaceOne(coll, key_fields, Head(docs)), key_fields,
                  Tail(docs))

\* the create_index calls
IMPORT_INDEXES ==
  {<<"models", "modelId", "unique">>, <<"assets", "modelId+id", "unique">>,
   <<"assets", "modelId">>, <<"assets", "type">>,
   <<"relationships", "modelId+id", "unique">>,
   <<"relationships", "modelId">>, <<"relationships", "from.assetId">>,
   <<"relationships", "to.assetId">>, <<"relationships", "type">>}

\* the directory has everything import_to_mongodb asks for
ImportStructureOk(d, input) ==
  /\ Exists(d, input)
  /\ Exists(d, input \o <<"model.json">>)
  /\ Exists(d, input \o <<"assets">>)
  /\ Exists(d, input \o <<"relationships">>)

service_unchanged == <<twin, size_labels, files, rand, prop_count,
                       properties, tenants, tenant_idx, written, num_models,
                       model_idx>>

InitImport ==
  /\ total_assets = 0
  /\ total_relationships = 0
  /\ model_id = InputModelId
  /\ generated_assets = <<>>
  /\ asset_ids_by_type = [t \in Range(TypeKeys) |-> <<>>]
  /\ pc = "import"
  /\ calls = 0
  /\ assets = <<>>
  /\ type_idx = 0
  /\ count = <<>>
  /\ relationships = <<>>
  /\ i = 0
  /\ draw = NoDraw
  /\ transformed_assets = <<>>
  /\ transformed_relationships = <<>>
  /\ twin = NoTwin
  /\ size_labels = SIZE_LABELS
  /\ files = <<>>
  /\ rand = 0
  /\ prop_count = 0
  /\ properties = <<>>
  /\ tenants = <<>>
  /\ tenant_idx = 0
  /\ written = <<>>
  /\ num_models = 0
  /\ model_idx = 0
  /\ db \in {NoDb, StaleDb}
  /\ disk \in InputDirectories
  /\ args = [input_dir |-> InputDir, output_dir |-> <<>>]
  /\ result = <<>>

\* import_to_mongodb returns False: pymongo is missing or no connection
ImportUnavailable ==
  /\ pc = "import"
  /\ Len(result) < MaxImportRuns
  /\ result' = Append(result, FALSE)
  /\ UNCHANGED <<generator_vars, pc, service_unchanged, db, disk, args>>

\* import_to_mongodb returns False: the directory structure is incomplete
ImportConfigError ==
  /\ pc = "import"
  /\ Len(result) < MaxImportRuns
  /\ ~ImportStructureOk(disk, args.input_dir)
  /\ result' = Append(result, FALSE)
  /\ UNCHANGED <<generator_vars, pc, service_unchanged, db, disk, args>>

\* import_to_mongodb runs to its end
ImportToMongodb ==
  /\ pc = "import"
  /\ Len(result) < MaxImportRuns
  /\ ImportStructureOk(disk, args.input_dir)
  /\ LET model_doc == disk[args.input_dir \o <<"model.json">>].docs[1]
         asset_docs == LoadAll(disk, Glob(disk, args.input_dir \o <<"assets">>))
         rel_docs == LoadAll(disk, Glob(disk, args.input_dir
                                                \o <<"relationships">>))
     IN db' = [models |-> ReplaceOne(db.models, {"modelId"}, model_doc),
               assets |-> ReplaceAll(db.assets, {"modelId", "id"}, asset_docs),
               relationships |-> ReplaceAll(db.relationships,
                                            {"modelId", "id"}, rel_docs),
               indexes |-> db.indexes \cup IMPORT_INDEXES]
  /\ result' = Append(result, TRUE)
  /\ UNCHANGED <<generator_vars, pc, service_unchanged, disk, args>>

NextImport ==
  \/ ImportUnavailable
  \/ ImportConfigError
  \/ ImportToMongodb

SpecImport == InitImport /\ [][NextImport]_vars

\* ---- export_to_jsonl
OutputDirs == {<<>>, <<"out">>, <<"exports", "out">>}

\* the import script, made executable
ImportScript == [script |-> "import_to_mongodb.sh", mode |-> "0o755"]

\* output_path = Path(output_dir) if output_dir else input_path
OutputPath(a) == IF a.output_dir = <<>> THEN a.input_dir ELSE a.output_dir

\* the files of a successful export, written in the order of the code
ExportFiles(d, input, output) ==
  LET model_doc == d[input \o <<"model.json">>].docs[1]
      d1 == WriteDocs(d, output \o <<"models.jsonl">>, <<model_doc>>)
      d2 == IF Exists(d1, input \o <<"assets">>)
              THEN WriteDocs(d1, output \o <<"assets.jsonl">>,
                             LoadAll(d1, Glob(d1, input \o <<"assets">>)))
              ELSE d1
      d3 == IF Exists(d2, input \o <<"relationships">>)
              THEN WriteDocs(d2, output \o <<"relationships.jsonl">>,
                             LoadAll(d2, Glob(d2, input
                                                    \o <<"relationships">>)))
              ELSE d2
  IN WriteDocs(d3, output \o <<"import_to_mongodb.sh">>, <<ImportScript>>)

InitExport ==
  /\ total_assets = 0
  /\ total_relationships = 0
  /\ model_id = InputModelId
  /\ generated_assets = <<>>
  /\ asset_ids_by_type = [t \in Range(TypeKeys) |-> <<>>]
  /\ pc = "export"
  /\ calls = 0
  /\ assets = <<>>
  /\ type_idx = 0
  /\ count = <<>>
  /\ relationships = <<>>
  /\ i = 0
  /\ draw = NoDraw
  /\ transformed_assets = <<>>
  /\ transformed_relationships = <<>>
  /\ twin = NoTwin
  /\ size_labels = SIZE_LABELS
  /\ files = <<>>
  /\ rand = 0
  /\ prop_count = 0
  /\ properties = <<>>
  /\ tenants = <<>>
  /\ tenant_idx = 0
  /\ written = <<>>
  /\ num_models = 0
  /\ model_idx = 0
  /\ db = NoDb
  /\ \E input \in InputDirectories, output_dir \in OutputDirs,
        present \in BOOLEAN :
       /\ args = [input_dir |-> InputDir, output_dir |-> output_dir]
       /\ disk = IF present /\ output_dir # <<>> THEN Mkdir(input, output_dir)
                 ELSE input
  /\ result = <<>>

\* export_to_jsonl returns False: the input directory or model.json is missing
ExportConfigError ==
  /\ pc = "export"
  /\ LET made == Mkdir(disk, OutputPath(args))
     IN /\ \/ ~Exists(made, args.input_dir)
           \/ ~Exists(made, args.input_dir \o <<"model.json">>)
        /\ disk' = made
  /\ result' = Append(result, FALSE)
  /\ pc' = "export_returned"
  /\ UNCHANGED <<generator_vars, service_unchanged, db, args>>

\* export_to_jsonl runs to its end
ExportToJsonl ==
  /\ pc = "export"
  /\ LET made == Mkdir(disk, OutputPath(args))
     IN /\ Exists(made, args.input_dir)
        /\ Exists(made, args.input_dir \o <<"model.json">>)
        /\ disk' = ExportFiles(made, args.input_dir, OutputPath(args))
  /\ result' = Append(result, TRUE)
  /\ pc' = "export_returned"
  /\ UNCHANGED <<generator_vars, service_unchanged, db, args>>

NextExport ==
  \/ ExportConfigError
  \/ ExportToJsonl

SpecExport == InitExport /\ [][NextExport]_vars

\* ============================ generate_multi_model_payload
MaxModels == 2

\* assets_per_model and relationships_per_model
MultiTotals == {5, 8}
MultiRelationshipTotals == {0, 1}

MultiModelIdNoIndex(timestamp, idx) == <<"model", timestamp>>

\* f"model-{timestamp}-{model_idx:06d}"
MultiModelId(timestamp, idx) == <<"model", timestamp, Format06d(idx)>>

\* the count generate_assets computes for the k-th catalogue type
CountOfType(total, k) ==
  ProportionalCount(total, ASSET_TYPES[TypeKeys[k]].count,
                    TotalDefault(TypeKeys, ASSET_TYPES), Len(TypeKeys))

\* generate_assets: the assets of the first k catalogue types, in order
RECURSIVE AssetsOfTypes(_, _, _)
AssetsOfTypes(mid, total, k) ==
  IF k = 0 THEN <<>>
  ELSE AssetsOfTypes(mid, total, k - 1)
         \o [j \in 1..CountOfType(total, k) |->
               GenerateAsset(mid, TypeKeys[k], j - 1, ASSET_TYPES[TypeKeys[k]])]

\* generate_assets: every new id is appended to the pool of its type
PoolsAfter(pools, total) ==
  [t \in Range(TypeKeys) |->
     LET k == CHOOSE n \in DOMAIN TypeKeys : TypeKeys[n] = t
     IN pools[t] \o [j \in 1..CountOfType(total, k) |-> AssetId(t, j - 1)]]

\* the asset transform of generate_multi_model_payload
MultiTransformAsset(asset) ==
  [k \in {"_id"} \cup {key \in DOMAIN asset : key \notin {"modelId", "id"}} |->
     IF k = "_id" THEN [modelId |-> asset["modelId"], id |-> asset["id"]]
     ELSE asset[k]]

MultiTransformRelationshipToOnly(rel) ==
  LET from_copy == [k \in DOMAIN rel["from"] \ {"assetId"} |-> rel["from"][k]]
      to_copy == [k \in DOMAIN rel["to"] \ {"assetId"} |-> rel["to"][k]]
      keys == {key \in DOMAIN rel :
                 /\ key \notin {"modelId", "id", "from"}
                 /\ key = "to" => DOMAIN to_copy # {}}
  IN [k \in {"_id"} \cup keys |->
        IF k = "_id" THEN [modelId |-> rel["modelId"], id |-> rel["id"],
                           fromAssetId |-> rel["from"]["assetId"],
                           toAssetId |-> rel["to"]["assetId"]]
        ELSE IF k = "to" THEN to_copy
        ELSE rel[k]]

\* the relationship transform of generate_multi_model_payload
MultiTransformRelationship(rel) ==
  LET from_copy == [k \in DOMAIN rel["from"] \ {"assetId"} |-> rel["from"][k]]
      to_copy == [k \in DOMAIN rel["to"] \ {"assetId"} |-> rel["to"][k]]
      keys == {key \in DOMAIN rel :
                 /\ key \notin {"modelId", "id"}
                 /\ key = "from" => DOMAIN from_copy # {}
                 /\ key = "to" => DOMAIN to_copy # {}}
  IN [k \in {"_id"} \cup keys |->
        IF k = "_id" THEN [modelId |-> rel["modelId"], id |-> rel["id"],
                           fromAssetId |-> rel["from"]["assetId"],
                           toAssetId |-> rel["to"]["assetId"]]
        ELSE IF k = "from" THEN from_copy
        ELSE IF k = "to" THEN to_copy
        ELSE rel[k]]

\* the model document of one model
MultiModelDoc(mid, idx, asset_list, rels, pools) ==
  [modelId |-> mid,
   name |-> <<"AEC Model ", Digits(idx + 1)>>,
   modelStatistics |->
     [totalEntities |-> CalculateStatistics(asset_list, pools).totalEntities],
   entityDistribution |-> CalculateStatistics(asset_list, pools).distribution]

\* the three shared files, as the documents of their lines
NoLines == [models |-> <<>>, assets |-> <<>>, relationships |-> <<>>]

multi_unchanged == <<twin, size_labels, files, rand, prop_count, properties,
                     tenants, tenant_idx, db, disk, args, result>>

\* the three files are open and empty; no generator exists yet
InitMulti ==
  /\ num_models \in 1..MaxModels
  /\ total_assets \in MultiTotals
  /\ total_relationships \in MultiRelationshipTotals
  /\ model_idx = 0
  /\ model_id = <<>>
  /\ generated_assets = <<>>
  /\ asset_ids_by_type = [t \in Range(TypeKeys) |-> <<>>]
  /\ pc = "multi_model"
  /\ calls = 0
  /\ assets = <<>>
  /\ type_idx = 0
  /\ count = <<>>
  /\ relationships = <<>>
  /\ i = 0
  /\ draw = NoDraw
  /\ transformed_assets = <<>>
  /\ transformed_relationships = <<>>
  /\ twin = NoTwin
  /\ size_labels = SIZE_LABELS
  /\ files = <<>>
  /\ rand = 0
  /\ prop_count = 0
  /\ properties = <<>>
  /\ tenants = <<>>
  /\ tenant_idx = 0
  /\ written = NoLines
  /\ db = NoDb
  /\ disk = <<>>
  /\ args = NoArgs
  /\ result = <<>>

\* the model id and a new AECPayloadGenerator for the next model
MultiNewGenerator ==
  /\ pc = "multi_model"
  /\ model_idx < num_models
  /\ \E now \in {Now1, Now2} : model_id' = MultiModelId(now, model_idx)
  /\ generated_assets' = <<>>
  /\ asset_ids_by_type' = [t \in Range(TypeKeys) |-> <<>>]
  /\ pc' = "multi_assets"
  /\ UNCHANGED <<total_assets, total_relationships, calls, assets, type_idx,
                 count, relationships, i, draw, transformed_assets,
                 transformed_relationships, written, num_models, model_idx,
                 multi_unchanged>>

\* assets = generator.generate_assets()
MultiGenerateAssets ==
  /\ pc = "multi_assets"
  /\ assets' = AssetsOfTypes(model_id, total_assets, Len(TypeKeys))
  /\ generated_assets' = assets'
  /\ asset_ids_by_type' = PoolsAfter(asset_ids_by_type, total_assets)
  /\ relationships' = <<>>
  /\ i' = 0
  /\ pc' = "multi_relationships"
  /\ UNCHANGED <<total_assets, total_relationships, model_id, calls,
                 type_idx, count, draw, transformed_assets,
                 transformed_relationships, written, num_models, model_idx,
                 multi_unchanged>>

\* one draw of generator.generate_relationships()
MultiDraw ==
  /\ pc = "multi_relationships"
  /\ i < total_relationships
  /\ \E c \in DOMAIN RelConfigs :
       \E f \in DOMAIN RelConfigs[c].from_types :
         \E t \in DOMAIN RelConfigs[c].to_types :
           LET from_pool == asset_ids_by_type[RelConfigs[c].from_types[f]]
               to_pool == asset_ids_by_type[RelConfigs[c].to_types[t]]
           IN IF SkipDraw(asset_ids_by_type, RelConfigs[c].from_types[f],
                          RelConfigs[c].to_types[t])
              THEN UNCHANGED relationships
              ELSE \E a \in DOMAIN from_pool, b \in DOMAIN to_pool,
                      p \in Point3dSamples :
                     relationships' = Append(relationships,
                       Relationship(model_id, RelConfigs[c], i,
                                    from_pool[a], to_pool[b], p))
  /\ i' = i + 1
  /\ UNCHANGED <<total_assets, total_relationships, model_id,
                 generated_assets, asset_ids_by_type, pc, calls, assets,
                 type_idx, count, draw, transformed_assets,
                 transformed_relationships, written, num_models, model_idx,
                 multi_unchanged>>

\* the model document, the transformed assets and the transformed
\* relationships of the model are written to the three files
MultiWrite ==
  /\ pc = "multi_relationships"
  /\ i >= total_relationships
  /\ written' =
       [models |-> Append(written.models,
                     MultiModelDoc(model_id, model_idx, assets, relationships,
                                   asset_ids_by_type)),
        assets |-> written.assets
                     \o [k \in DOMAIN assets |-> MultiTransformAsset(assets[k])],
        relationships |-> written.relationships
                     \o [k \in DOMAIN relationships |->
                           MultiTransformRelationship(relationships[k])]]
  /\ model_idx' = model_idx + 1
  /\ pc' = "multi_model"
  /\ UNCHANGED <<total_assets, total_relationships, model_id,
                 generated_assets, asset_ids_by_type, calls, assets,
                 type_idx, count, relationships, i, draw, transformed_assets,
                 transformed_relationships, num_models, multi_unchanged>>

\* every model is written; the files are closed
MultiDone ==
  /\ pc = "multi_model"
  /\ model_idx >= num_models
  /\ pc' = "multi_done"
  /\ UNCHANGED <<total_assets, total_relationships, model_id,
                 generated_assets, asset_ids_by_type, calls, assets,
                 type_idx, count, relationships, i, draw, transformed_assets,
                 transformed_relationships, written, num_models, model_idx,
                 multi_unchanged>>

NextMulti ==
  \/ MultiNewGenerator
  \/ MultiGenerateAssets
  \/ MultiDraw
  \/ MultiWrite
  \/ MultiDone

SpecMulti == InitMulti /\ [][NextMulti]_vars

\* ---- the two copies of the transform on the same documents
\* the transform loops of generate_multi_model_payload run on the documents
\* that generate_payload has transformed
CopiesTransform ==
  /\ pc = "done"
  /\ written' =
       [models |-> <<>>,
        assets |-> [k \in DOMAIN assets |-> MultiTransformAsset(assets[k])],
        relationships |-> [k \in DOMAIN relationships |->
                             MultiTransformRelationship(relationships[k])]]
  /\ pc' = "copies_done"
  /\ UNCHANGED <<generator_vars, num_models, model_idx, multi_unchanged>>

NextCopies ==
  \/ TransformAssets
  \/ TransformRelationships
  \/ CopiesTransform

SpecCopies == InitTransform /\ [][NextCopies]_vars

\* ================================================================ claims
\* generate_assets has computed the count of every catalogue type
Allocated == Len(count) = Len(TypeKeys)

\* the number written by {index:06d}
RECURSIVE DigitsValue(_)
DigitsValue(d) ==
  IF d = <<>> THEN 0
  ELSE 10 * DigitsValue(SubSeq(d, 1, Len(d) - 1)) + d[Len(d)]

ConfigOf(rel) ==
  CHOOSE c \in Range(RelConfigs) :
    c.type = rel["attributes"]["application"]["relationshipType"]

\* C1: the per-type counts allocated by generate_assets sum to at most
\* total_assets, and no more assets are emitted than were requested.
C1_SumAtMostTotal ==
  Allocated => SumSeq(count) <= total_assets /\ Len(assets) <= total_assets

\* C2: when total_assets is at least the number of catalogue types, every
\* type is allocated at least one asset and every id pool is non-empty after
\* generate_assets.
C2_EveryTypeRepresented ==
  total_assets >= Len(TypeKeys) =>
    /\ Allocated => \A k \in DOMAIN count : count[k] >= 1
    /\ (Allocated \/ (calls >= 1 /\ pc # "assets")) =>
         \A t \in Range(TypeKeys) : asset_ids_by_type[t] # <<>>

C2_Witness ==
  /\ Allocated
  /\ total_assets = Len(TypeKeys)
  /\ (total_assets * ASSET_TYPES["doors"].count)
        \div TotalDefault(TypeKeys, ASSET_TYPES) = 0
  /\ Len(asset_ids_by_type["doors"]) = 1

\* C3 (as stated): total_assets = 3 yields one asset for each of 3 distinct
\* types, zero for the other 5, and 3 assets in total.
C3_ThreeOfEight ==
  (Allocated /\ total_assets = 3) =>
    /\ Cardinality({k \in DOMAIN count : count[k] = 1}) = 3
    /\ Cardinality({k \in DOMAIN count : count[k] = 0}) = 5
    /\ Len(assets) = 3

\* C3 (amended): total_assets = 3 is below the number of catalogue types, so
\* the floor-to-1 rule does not apply: every type is allocated zero assets and
\* no asset is emitted.
C3_NoneOfEight ==
  (Allocated /\ total_assets = 3) =>
    /\ \A k \in DOMAIN count : count[k] = 0
    /\ assets = <<>>
    /\ \A t \in Range(TypeKeys) : asset_ids_by_type[t] = <<>>

C3_Witness == Allocated /\ total_assets = 3 /\ pc = "relationships"

\* C4: the allocation rule applied to total = 800 and weights
\* {A: 0.5, B: 0.3, C: 0.2} yields {A: 400, B: 240, C: 160}, summing to 800.
C4_Scenario800 ==
  (pc = "allocate" /\ total_assets = 800 /\ Len(count) = Len(ABCKeys)) =>
    /\ count = <<400, 240, 160>>
    /\ SumSeq(count) = 800

C4_Witness ==
  pc = "allocate" /\ total_assets = 800 /\ Len(count) = Len(ABCKeys)

\* C5: every emitted relationship goes from an id in the pool of one of its
\* category's from_types to an id in the pool of one of its category's
\* to_types, and both ids are ids of generated assets.
C5_EndpointsInPools ==
  \A k \in DOMAIN relationships :
    LET rel == relationships[k]
        config == ConfigOf(rel)
    IN /\ \E t \in Range(config.from_types) :
            rel["from"]["assetId"] \in Range(asset_ids_by_type[t])
       /\ \E t \in Range(config.to_types) :
            rel["to"]["assetId"] \in Range(asset_ids_by_type[t])
       /\ rel["from"]["assetId"] \in {assets[j]["id"] : j \in DOMAIN assets}
       /\ rel["to"]["assetId"] \in {assets[j]["id"] : j \in DOMAIN assets}

C5_Witness ==
  /\ pc = "done"
  /\ \E k \in DOMAIN relationships :
       /\ relationships[k]["attributes"]["application"]["relationshipType"]
            = "contains"
       /\ relationships[k]["to"]["assetId"]
            \in Range(asset_ids_by_type["fixtures"])
  /\ \E k \in DOMAIN relationships :
       relationships[k]["attributes"]["application"]["relationshipType"]
         = "hosted"

\* C6: within one run no two emitted assets share an id, across all types,
\* and no two emitted relationships share an id.
C6_IdsUnique ==
  /\ \A j, k \in DOMAIN assets :
       assets[j]["id"] = assets[k]["id"] => j = k
  /\ \A j, k \in DOMAIN generated_assets :
       generated_assets[j]["id"] = generated_assets[k]["id"] => j = k
  /\ \A j, k \in DOMAIN relationships :
       relationships[j]["id"] = relationships[k]["id"] => j = k

C6_Witness ==
  /\ pc = "done"
  /\ Len(assets) > Len(TypeKeys)
  /\ Len(relationships) = MaxTotalRelationships
  /\ \E j, k \in DOMAIN relationships :
       j # k /\ relationships[j]["from"] = relationships[k]["from"]
             /\ relationships[j]["to"] = relationships[k]["to"]

\* C7: the transformed asset's _id is exactly {modelId, id} of the original
\* asset, and the transformed relationship's _id is exactly {modelId, id,
\* fromAssetId = from.assetId, toAssetId = to.assetId} of the original.
C7_KeyPreserved ==
  pc = "done" =>
    /\ Len(transformed_assets) = Len(assets)
    /\ Len(transformed_relationships) = Len(relationships)
    /\ \A k \in DOMAIN assets :
         LET key == transformed_assets[k]["_id"]
         IN /\ DOMAIN key = {"modelId", "id"}
            /\ key["modelId"] = assets[k]["modelId"]
            /\ key["id"] = assets[k]["id"]
    /\ \A k \in DOMAIN relationships :
         LET key == transformed_relationships[k]["_id"]
         IN /\ DOMAIN key = {"modelId", "id", "fromAssetId", "toAssetId"}
            /\ key["modelId"] = relationships[k]["modelId"]
            /\ key["id"] = relationships[k]["id"]
            /\ key["fromAssetId"] = relationships[k]["from"]["assetId"]
            /\ key["toAssetId"] = relationships[k]["to"]["assetId"]

C7_Witness ==
  /\ pc = "done"
  /\ calls >= 1
  /\ Len(assets) >= Len(TypeKeys)
  /\ Len(relationships) >= 2

\* the part of a from/to reference that remains once assetId is dropped
Remaining(ref) == DOMAIN ref \ {"assetId"}

\* C8: a transformed relationship has no top-level modelId or id; its from
\* (to) field is present exactly when the original from (to) has a sub-field
\* other than assetId, and is then the original minus assetId; every other
\* top-level field is copied unchanged; relationships produced by
\* generate_relationships are written with neither from nor to.
C8_RelationshipShape ==
  pc = "done" =>
    \A k \in DOMAIN relationships :
      LET rel == relationships[k]
          out == transformed_relationships[k]
      IN /\ "modelId" \notin DOMAIN out /\ "id" \notin DOMAIN out
         /\ \A side \in {"from", "to"} :
              /\ side \in DOMAIN out <=> Remaining(rel[side]) # {}
              /\ side \in DOMAIN out =>
                   /\ DOMAIN out[side] = Remaining(rel[side])
                   /\ \A f \in Remaining(rel[side]) :
                        out[side][f] = rel[side][f]
         /\ \A f \in DOMAIN rel \ {"modelId", "id", "from", "to"} :
              f \in DOMAIN out /\ out[f] = rel[f]
         /\ DOMAIN out \subseteq (DOMAIN rel \ {"modelId", "id"}) \cup {"_id"}
         /\ calls >= 1 => "from" \notin DOMAIN out /\ "to" \notin DOMAIN out

C8_Witness ==
  /\ pc = "done"
  /\ calls = 0
  /\ Remaining(relationships[1]["from"]) # {}
  /\ Remaining(relationships[1]["to"]) = {}
  /\ "from" \in DOMAIN transformed_relationships[1]
  /\ "to" \notin DOMAIN transformed_relationships[1]

\* the step is one draw of the relationship loop
IsDraw == pc = "relationships" /\ pc' # "transform_assets" /\ draw' # NoDraw

\* C9: a draw whose chosen from-type or to-type pool is empty emits no
\* relationship, raises no error and uses up its draw; the number of
\* relationships emitted never exceeds total_relationships.
C9_EmptyPoolSkips ==
  /\ [](pc # "IndexError" /\ Len(relationships) <= total_relationships)
  /\ [][(IsDraw /\ (asset_ids_by_type[draw'.from_type] = <<>>
                    \/ asset_ids_by_type[draw'.to_type] = <<>>))
        => (relationships' = relationships /\ pc' = "relationships"
            /\ i' = i + 1)]_vars

C9_Witness ==
  /\ pc = "relationships"
  /\ i = total_relationships
  /\ i >= 2
  /\ draw.config = 1
  /\ asset_ids_by_type["walls"] = <<>>
  /\ asset_ids_by_type[draw.from_type] = <<>>
  /\ relationships = <<>>

\* C10: the relationship emitted by draw i carries the id
\* rel-{category}-{i:06d} built from the draw index; the indices of the
\* emitted relationships are below the next draw index and strictly
\* increasing in output order.
C10_IdFromDrawIndex ==
  /\ [](/\ \A k \in DOMAIN relationships :
             /\ relationships[k]["id"][1] = "rel"
             /\ relationships[k]["id"][2] = ConfigOf(relationships[k]).type
             /\ Len(relationships[k]["id"][3]) = 6
             /\ DigitsValue(relationships[k]["id"][3]) < i
        /\ \A j, k \in DOMAIN relationships :
             j < k => DigitsValue(relationships[j]["id"][3])
                        < DigitsValue(relationships[k]["id"][3]))
  /\ [][(IsDraw /\ relationships' # relationships)
        => /\ Len(relationships') = Len(relationships) + 1
           /\ SubSeq(relationships', 1, Len(relationships)) = relationships
           /\ relationships'[Len(relationships')]["id"] =
                <<"rel", RelConfigs[draw'.config].type, Format06d(i)>>
           /\ i < total_relationships]_vars

C10_Witness ==
  /\ pc = "relationships"
  /\ Len(relationships) = 2
  /\ relationships[1]["id"] = <<"rel", "hosted", <<0, 0, 0, 0, 0, 0>>>>
  /\ relationships[2]["id"] = <<"rel", "serves", <<0, 0, 0, 0, 0, 1>>>>

\* the catalogue key of an asset document, by its wire type
TypeKeyOf(asset) ==
  CHOOSE t \in Range(TypeKeys) : ASSET_TYPES[t].type = asset["type"]

\* the zero-based generation index of the k-th asset within its type
IndexInType(docs, k) ==
  Cardinality({j \in 1..(k - 1) : docs[j]["type"] = docs[k]["type"]})

ElementIdOf(asset) ==
  asset["components"]["insertions"]["metadata"]["elementId"]

\* C20: every asset's elementId is its type's element_id_start plus its
\* zero-based generation index, so no two assets of one type share an
\* elementId within a run.
C20_ElementIdFromIndex ==
  /\ \A k \in DOMAIN assets :
       ElementIdOf(assets[k]) =
         Digits(ASSET_TYPES[TypeKeyOf(assets[k])].element_id_start
                + IndexInType(assets, k))
  /\ \A j, k \in DOMAIN assets :
       (j # k /\ assets[j]["type"] = assets[k]["type"])
         => ElementIdOf(assets[j]) # ElementIdOf(assets[k])

C20_Witness ==
  /\ pc = "done"
  /\ \E j, k \in DOMAIN assets :
       /\ j # k
       /\ assets[j]["type"] = assets[k]["type"]
       /\ ElementIdOf(assets[k]) = <<3, 4, 0, 0, 0, 1>>

UniqueIdOf(asset) == asset["attributes"]["system"]["uniqueId"]

C12_UniqueIdsDistinct ==
  \A j, k \in DOMAIN assets :
    j # k => UniqueIdOf(assets[j]) # UniqueIdOf(assets[k])

\* some door or window label has no number before its first '"'
Malformed(labels) ==
  \E t \in DOMAIN labels : \E f \in DOMAIN labels[t] :
    \E n \in DOMAIN labels[t][f] : ~IsNumber(SplitHead(labels[t][f][n]))

\* C17: a catalogue with a malformed size label is rejected before any asset
\* is built: nothing is ever appended to the asset list or to
\* asset_ids_by_type, and generation does not run to completion.
C17_MalformedRejectedAtLoad ==
  Malformed(size_labels) =>
    /\ assets = <<>>
    /\ \A t \in Range(TypeKeys) : asset_ids_by_type[t] = <<>>
    /\ pc # "detail_done"

\* C13 (as stated): get_property_count returns a value in [114, 4491], and
\* the buckets are disjoint: [114,287], (287,592], (592,997], (997,4491].
C13_DisjointBuckets ==
  pc = "property_count" =>
    /\ prop_count >= 114 /\ prop_count <= 4491
    /\ rand < 50 => (prop_count >= 114 /\ prop_count <= 287)
    /\ (rand >= 50 /\ rand < 75) => (prop_count > 287 /\ prop_count <= 592)
    /\ (rand >= 75 /\ rand < 95) => (prop_count > 592 /\ prop_count <= 997)
    /\ rand >= 95 => (prop_count > 997 /\ prop_count <= 4491)

\* C13 (amended): get_property_count returns a value in [114, 4491]; the
\* buckets are the closed ranges [114,287], [287,592], [592,997] and
\* [997,4491], which share their end points 287, 592 and 997.
C13_ClosedBuckets ==
  pc = "property_count" =>
    /\ prop_count >= 114 /\ prop_count <= 4491
    /\ rand < 50 => (prop_count >= 114 /\ prop_count <= 287)
    /\ (rand >= 50 /\ rand < 75) => (prop_count >= 287 /\ prop_count <= 592)
    /\ (rand >= 75 /\ rand < 95) => (prop_count >= 592 /\ prop_count <= 997)
    /\ rand >= 95 => (prop_count >= 997 /\ prop_count <= 4491)

C13_Witness ==
  pc = "property_count" /\ rand >= 50 /\ rand < 75 /\ prop_count = 287

\* the kind of the entry at a position of the bag
KindOf(entry) == entry.value["typeId"][2]

\* C14 (as stated): a slot's key is the bare kind name when the slot is the
\* first occurrence of its kind, and carries a numeric suffix otherwise.
C14_BareAtFirstOccurrence ==
  (pc = "properties" /\ Len(properties) = prop_count) =>
    \A k \in DOMAIN properties :
      LET kind == KindOf(properties[k])
      IN IF \A h \in 1..(k - 1) : KindOf(properties[h]) # kind
         THEN properties[k].key = <<kind>>
         ELSE Len(properties[k].key) = 2

\* C14 (amended): only slot 0 has the bare kind name as its key; every slot
\* i >= 1 has the kind name with the suffix _i, whether or not its kind
\* occurred before.
C14_BareOnlyAtSlotZero ==
  (pc = "properties" /\ Len(properties) = prop_count) =>
    \A k \in DOMAIN properties :
      LET kind == KindOf(properties[k])
      IN properties[k].key = IF k = 1 THEN <<kind>> ELSE <<kind, Digits(k - 1)>>

C14_Witness ==
  /\ pc = "properties"
  /\ Len(properties) >= 2
  /\ KindOf(properties[1]) = "area"
  /\ KindOf(properties[2]) = "volume"
  /\ properties[2].key = <<"volume", <<1>>>>

\* C15: generate_properties(count) returns a bag with exactly count entries:
\* the keys of the slots are pairwise distinct and no slot overwrites an
\* earlier one.
C15_BagSizeIsCount ==
  pc \in {"generate_properties", "properties"} =>
    /\ Len(properties) = i
    /\ pc = "properties" => Len(properties) = prop_count
    /\ \A j, k \in DOMAIN properties :
         properties[j].key = properties[k].key => j = k

C15_Witness ==
  /\ pc = "properties"
  /\ prop_count = MaxPropCount
  /\ Len(properties) = MaxPropCount
  /\ KindOf(properties[2]) = KindOf(properties[3])

\* C16: the manifest of generate_tenant_manifest has 50 tenants whose
\* asset_count values sum to 1,198,800 and whose relationship_count values
\* sum to 3,596,400, the totals of the module docstring.
C16_ManifestTotals ==
  tenants = GenerateTenantManifest(TIERS) =>
    /\ Len(tenants) = 50
    /\ SumSeq([k \in DOMAIN tenants |-> tenants[k].asset_count]) = 1198800
    /\ SumSeq([k \in DOMAIN tenants |-> tenants[k].relationship_count])
         = 3596400

\* the identifiers in a written file
IdsOf(file) == Range(file.ids)

\* the tenant that the lists assets and relationships were generated for
LoopTenant ==
  tenants[IF pc = "tenant_relationships" THEN tenant_idx ELSE tenant_idx - 1]

\* C19: identifiers are tenant-scoped and tenants are isolated: the two
\* ends of every relationship are assetIds of assets generated for the same
\* tenant (number in 1..asset_count), no asset id or relationship id occurs
\* in the files of two different tenants, and every asset's shardKey is
\* "{tenantId}:{spaceId}" of that asset.
C19_TenantsIsolated ==
  /\ pc \in {"tenant_relationships", "tenant", "revit_done"} =>
       \A k \in DOMAIN relationships :
         /\ \A end \in {"fromAssetId", "toAssetId"} :
              /\ \E a \in DOMAIN assets :
                   /\ assets[a].assetId = relationships[k][end]
                   /\ assets[a].tenantId = relationships[k].tenantId
              /\ DigitsValue(relationships[k][end][3])
                   \in 1..LoopTenant.asset_count
         /\ relationships[k].tenantId = LoopTenant.tenant_id
         /\ relationships[k].relationshipId[1] = relationships[k].tenantId
  /\ \A f, g \in DOMAIN written :
       /\ \A id \in IdsOf(written[f]) : id[1] = written[f].dir
       /\ written[f].dir # written[g].dir =>
            IdsOf(written[f]) \cap IdsOf(written[g]) = {}
  /\ \A a \in DOMAIN assets :
       /\ assets[a].shardKey = <<assets[a].tenantId, ":", assets[a].spaceId>>
       /\ assets[a].assetId[1] = assets[a].tenantId

C19_Witness ==
  /\ pc = "tenant_relationships"
  /\ \E f, g \in DOMAIN written :
       /\ written[f].dir # written[g].dir
       /\ written[f].name = "relationships.json"
       /\ Len(written[f].ids) = MaxTenantRels
       /\ written[g].name = "assets.json"
       /\ Len(written[g].ids) = MaxTenantAssets
  /\ \E k \in DOMAIN relationships :
       relationships[k].fromAssetId # relationships[k].toAssetId

\* the array file and the line file of a collection, and its documents
FileForms ==
  { [json |-> "assets.json", jsonl |-> "assets.jsonl",
     docs |-> transformed_assets],
    [json |-> "relationships.json", jsonl |-> "relationships.jsonl",
     docs |-> transformed_relationships] }

\* C18: the array file and the line file of a collection, as written by
\* generate_payload and after convert_to_jsonl has rewritten the line file
\* from the array file, parse back to the same documents, the same number
\* of them, in the same order: the transformed documents.
C18_FormsAgree ==
  \A form \in FileForms :
    form.json \in DOMAIN files =>
      /\ form.jsonl \in DOMAIN files
      /\ ParseArray(files[form.json]) = form.docs
      /\ ParseLines(files[form.jsonl]) = form.docs
      /\ Len(ParseLines(files[form.jsonl])) = Len(form.docs)

C18_Witness ==
  /\ pc = "converted"
  /\ Len(transformed_assets) = MaxDocs
  /\ Len(transformed_relationships) = MaxDocs
  /\ transformed_assets[1] = DoorDoc
  /\ transformed_assets[2] = WallDoc
  /\ ParseLines(files["assets.jsonl"]) = transformed_assets

\* the wire type of each relationship category
WireTypeOf ==
  [hosted |-> "autodesk.revit:hosted-1.0.0",
   roomBounding |-> "autodesk.revit:roomBounding-1.0.0",
   serves |-> "autodesk.mep:serves-1.0.0",
   contains |-> "autodesk.revit:contains-1.0.0"]

\* C21: every emitted relationship's wire type and its relationshipType come
\* from the same category entry, the category name in its id is that same
\* category, and insertionPoint is present if and only if the category is
\* hosted.
C21_CategoryConsistent ==
  \A k \in DOMAIN relationships :
    LET rel == relationships[k]
        application == rel["attributes"]["application"]
        category == application["relationshipType"]
    IN /\ category \in DOMAIN WireTypeOf
       /\ rel["type"] = WireTypeOf[category]
       /\ \E c \in DOMAIN RelConfigs :
            /\ RelConfigs[c].type = category
            /\ RelConfigs[c].rel_type = rel["type"]
       /\ rel["id"][2] = category
       /\ ("insertionPoint" \in DOMAIN application) <=> (category = "hosted")

C21_Witness ==
  /\ pc = "done"
  /\ Len(relationships) = 2
  /\ relationships[1]["type"] = "autodesk.revit:hosted-1.0.0"
  /\ "insertionPoint" \in DOMAIN relationships[1]["attributes"]["application"]
  /\ relationships[2]["type"] = "autodesk.mep:serves-1.0.0"
  /\ "insertionPoint"
       \notin DOMAIN relationships[2]["attributes"]["application"]

\* C25: the number of emitted relationships depends on total_assets only
\* through a threshold: with total_assets >= 8 no draw is skipped and
\* exactly total_relationships relationships are emitted, with ids without
\* gaps; with total_assets < 8 every draw is skipped and none is emitted.
C25_Threshold ==
  pc \in {"relationships", "transform_assets", "transform_relationships",
          "done"} =>
    /\ total_assets >= 8 =>
         /\ Len(relationships) = i
         /\ \A k \in DOMAIN relationships :
              DigitsValue(relationships[k]["id"][3]) = k - 1
         /\ pc # "relationships" => Len(relationships) = total_relationships
    /\ total_assets < 8 => relationships = <<>>

C25_Witness ==
  /\ pc = "done"
  /\ total_assets = 7
  /\ total_relationships >= 2
  /\ i = total_relationships
  /\ asset_ids_by_type["walls"] # <<>>
  /\ asset_ids_by_type["mepComponents"] # <<>>
  /\ relationships = <<>>

\* the ids that the assets of a type carry in a list of assets
IdsOfType(asset_list, t) ==
  {asset_list[k]["id"] : k \in {j \in DOMAIN asset_list :
                                  asset_list[j]["type"] = ASSET_TYPES[t].type}}

\* C26: after any sequence of generate_assets calls on one instance, every
\* id pool holds exactly the ids of the assets of its type in
\* generated_assets, no id twice, and the entityDistribution of
\* calculate_statistics sums to totalEntities.
C26_StateConsistent ==
  pc = "transform_assets" =>
    /\ \A t \in Range(TypeKeys) :
         /\ Range(asset_ids_by_type[t]) = IdsOfType(generated_assets, t)
         /\ \A j, k \in DOMAIN asset_ids_by_type[t] :
              asset_ids_by_type[t][j] = asset_ids_by_type[t][k] => j = k
    /\ LET stats == CalculateStatistics(assets, asset_ids_by_type)
       IN SumSeq([k \in DOMAIN TypeKeys |-> stats.distribution[TypeKeys[k]]])
            = stats.totalEntities

\* C28: no emitted relationship is a self-loop: from.assetId and to.assetId
\* are different ids.
C28_NoSelfLoop ==
  \A k \in DOMAIN relationships :
    relationships[k]["from"]["assetId"] # relationships[k]["to"]["assetId"]

C28_Witness ==
  /\ pc = "done"
  /\ Len(relationships) >= 2
  /\ \E k \in DOMAIN relationships :
       /\ relationships[k]["from"]["assetId"] = AssetId("rooms", 0)
       /\ relationships[k]["to"]["assetId"] = AssetId("walls", 0)
  /\ \E k \in DOMAIN relationships :
       /\ relationships[k]["from"]["assetId"] = AssetId("mepComponents", 0)
       /\ relationships[k]["to"]["assetId"] = AssetId("rooms", 0)

\* the first elementId of a type and the one after its last
ElementIdStart(k) == ASSET_TYPES[TypeKeys[k]].element_id_start
ElementIdEnd(k) == ElementIdStart(k) + count[k]

\* C27: for total_assets up to the default 10000, the elementId ranges
\* [element_id_start, element_id_start + count) of different asset types do
\* not overlap, so elementId is unique model-wide.
C27_ElementIdRangesDisjoint ==
  (pc = "catalogue" /\ Allocated /\ total_assets <= 10000) =>
    \A j, k \in DOMAIN count :
      (j # k /\ count[j] > 0 /\ count[k] > 0) =>
        (ElementIdEnd(j) <= ElementIdStart(k)
           \/ ElementIdEnd(k) <= ElementIdStart(j))

\* C29: the allocation shortfall is bounded: the number of assets emitted
\* is at least total_assets - 7, the number of catalogue types minus one.
C29_ShortfallBounded ==
  (pc = "catalogue" /\ Allocated) =>
    SumSeq(count) >= total_assets - (Len(TypeKeys) - 1)

C29_Witness ==
  /\ pc = "catalogue"
  /\ Allocated
  /\ total_assets = 199
  /\ SumSeq(count) = total_assets - 7

\* C22: the compound-key transform of generate_payload and its copy in
\* generate_multi_model_payload produce the same transformed document for
\* every asset and every relationship, including relationships whose from
\* or to carries further sub-fields.
C22_CopiesAgree ==
  pc = "copies_done" =>
    /\ written.assets = transformed_assets
    /\ written.relationships = transformed_relationships
    /\ \A k \in DOMAIN relationships :
         MultiTransformRelationship(relationships[k])
           = TransformRelationship(relationships[k])

C22_Witness ==
  /\ pc = "copies_done"
  /\ Len(written.assets) >= 1
  /\ \E k \in DOMAIN relationships :
       /\ DOMAIN relationships[k]["from"] = {"assetId"}
       /\ DOMAIN relationships[k]["to"] # {"assetId"}
       /\ "to" \in DOMAIN written.relationships[k]
       /\ "from" \notin DOMAIN written.relationships[k]

\* C23: in multi-model mode all models get pairwise distinct modelIds, the
\* compound keys (modelId, id) of the asset lines are pairwise distinct, and
\* each relationship's two ends are ids of assets of the model in its own
\* _id.modelId, drawn from pools that hold the ids of that model only.
C23_ModelsIsolated ==
  /\ \A j, k \in DOMAIN written.models :
       j # k => written.models[j].modelId # written.models[k].modelId
  /\ \A j, k \in DOMAIN written.assets :
       j # k => written.assets[j]["_id"] # written.assets[k]["_id"]
  /\ \A r \in DOMAIN written.relationships :
       \A end \in {"fromAssetId", "toAssetId"} :
         \E a \in DOMAIN written.assets :
           /\ written.assets[a]["_id"]["modelId"]
                = written.relationships[r]["_id"]["modelId"]
           /\ written.assets[a]["_id"]["id"]
                = written.relationships[r]["_id"][end]
  /\ pc = "multi_relationships" =>
       /\ \A t \in Range(TypeKeys) :
            /\ Range(asset_ids_by_type[t]) = IdsOfType(assets, t)
            /\ Len(asset_ids_by_type[t]) = Cardinality(IdsOfType(assets, t))
       /\ \A k \in DOMAIN assets : assets[k]["modelId"] = model_id
       /\ \A k \in DOMAIN relationships :
            relationships[k]["modelId"] = model_id

C23_Witness ==
  /\ pc = "multi_done"
  /\ num_models >= 2
  /\ written.models[1].modelId[2] = written.models[2].modelId[2]
  /\ \E j, k \in DOMAIN written.assets :
       /\ written.assets[j]["_id"]["id"] = written.assets[k]["_id"]["id"]
       /\ written.assets[j]["_id"]["modelId"]
            # written.assets[k]["_id"]["modelId"]
  /\ Len(written.relationships) >= 2

\* the key (modelId, id) of a stored document
StoredKey(stored) == <<stored.doc["modelId"], stored.doc["id"]>>

\* C24: import_to_mongodb is idempotent: once an import has run to its end,
\* running it again on the same directory leaves the models, assets and
\* relationships collections as they are, with at most one stored document
\* per (modelId, id).
C24_ImportIdempotent ==
  /\ [][(\E k \in DOMAIN result : result[k]) => db' = db]_vars
  /\ [](\A coll \in {db.assets, db.relationships} :
          \A j, k \in DOMAIN coll :
            StoredKey(coll[j]) = StoredKey(coll[k]) => j = k)

C24_Witness ==
  /\ Len(result) >= 2
  /\ result[1]
  /\ result[2]
  /\ Len(db.assets) = 3
  /\ Len(db.relationships) = 2
  /\ Len(db.models) = 1
  /\ Cardinality(Children(disk, InputDir \o <<"assets">>)) = 3

\* C30: when export_to_jsonl fails with a configuration error (the input
\* directory or model.json is missing) it returns False and has written
\* nothing: no file and no directory is created or modified, whether
\* output_dir is given or defaults to input_dir.
C30_FailureWritesNothing ==
  [][(pc = "export" /\ result' = Append(result, FALSE)) => disk' = disk]_vars

====
